---- MODULE Spec2Model ----
(***************************************************************************)
(* State-machine model of the snake game engine, class Game of             *)
(* src/js/game.js, with the helpers of class Utils (src/js/audio.js).      *)
(*                                                                         *)
(* Every public method and every timer callback of Game is one action.     *)
(* Math.random() and Utils.getRandomInt() are nondeterministic choices.    *)
(* Date.now() is the variable now, in milliseconds since the engine was    *)
(* constructed or last reset; it advances in steps of one second (the      *)
(* period of the wall-clock timer) and never passes a pending wall-clock   *)
(* or special-food deadline.  The period of the simulation timer is kept   *)
(* as data; the timer fires at least once in every second through which    *)
(* it is scheduled (its period is at most config.speed, below a second).   *)
(* Intervals are kept in tenths of a millisecond, so that the factor 0.7   *)
(* of the speed boost is exact.                                            *)
(***************************************************************************)
EXTENDS Integers, Sequences, FiniteSets, TLC

\* ------------------------------------------------------------ configuration
\* Game.constructor: this.config (game.js 12-26).  The grid, the speed ramp
\* and the obstacle count are small so that walls, the speed floor and the
\* time limit are reached within a few ticks.
Width == 4
Height == 2
Speed == 100
SpeedIncrease == 20
MaxSpeed == 50
InitialSnakeLength == 3
TimeLimit == 2
ObstacleCount == 1
SpecialFoodDuration == 2000

\* activatePowerUp: Date.now() + 5000 (game.js 530)
PowerUpDuration == 5000
\* period of the wall-clock timer, setInterval(..., 1000) (game.js 239)
SecondMs == 1000
\* addScore(this.food.type === 'special' ? 5 : 1) (game.js 433)
SpecialScore == 5
NormalScore == 1
\* intervals are kept in units of 1/IntervalScale ms; 0.7 = BoostFactor/IntervalScale
IntervalScale == 10
BoostFactor == 7

\* ------------------------------------------------------------ model bounds
\* the clock stops after MaxSeconds seconds
MaxSeconds == 5
\* where the clock stands still (PlaySpec) the simulation timer fires at
\* most MaxTicks times per game, MaxObstacleTicks times in obstacle mode;
\* where the clock runs (Spec) at most MaxTimedTicks times
MaxTicks == 3
MaxObstacleTicks == 2
MaxTimedTicks == 2
\* the draw Math.random() < 0.3 of checkFood adds an obstacle only while
\* there are fewer than MaxObstacles
MaxObstacles == 2
\* where the host registers handlers (HostSpec) at most MaxHandlers events
\* have a handler at a time, and the simulation timer fires at most
\* MaxHostTicks times
MaxHandlers == 2
MaxHostTicks == 2
\* ticks of the game of CoilSpec, in which the snake grows and coils up
MaxCoilTicks == 4
\* assignments of the host of RenderSpec to what it holds
MaxWrites == 1
\* ticks of the game of CallingSpec
MaxCallingTicks == 2
\* ticks of the game of ConfigSpec
MaxConfigTicks == 1
\* scores passed to updateHighScore
MaxScore == 1
\* requirement of the achievement highScorer (100 in the code)
Requirement == 2

Modes == {"classic", "timeAttack", "obstacle"}
Directions == {"up", "down", "left", "right"}
\* values an input source may pass to changeDirection: the four cardinal
\* directions and one value that is none of them
DirectionInputs == Directions \cup {"diagonal"}
PowerUps == <<"speedBoost", "invincible", "wallPass">>
Null == "null"
\* the keys of this.callbacks
Events == {"onScoreChange", "onGameOver", "onPowerUpActivate", "onPowerUpEnd",
           "onFoodEaten", "onSpecialFoodEaten", "onTimeUpdate"}
\* values an input source may pass to on() as the event: the seven keys and
\* one name that is none of them
EventInputs == Events \cup {"onResize"}
\* the functions a host registers; what a handler does is the host's business
Handlers == {"handler"}
\* this.callbacks of the constructor and after destroy()
NoCallbacks == [e \in Events |-> Null]
\* A timer handle: set is whether the field holds a handle (is not null),
\* pending whether its callback will still run, at the deadline of a timeout,
\* the next due time of the wall-clock interval or the period of the
\* simulation interval.
NoTimer == [set |-> FALSE, pending |-> FALSE, at |-> 0]
Timer(v) == [set |-> TRUE, pending |-> TRUE, at |-> v]

VARIABLES
    mode,             \* this.config.mode
    state,            \* this.state
    snake,            \* this.snake
    food,             \* this.food
    obstacles,        \* this.obstacles
    specialFoodTimer, \* this.specialFoodTimer: handle with its deadline
    gameLoopInterval, \* this.gameLoopInterval: handle with its period (tenths of ms)
    gameTimeInterval, \* this.gameTimeInterval: handle with its next due time
    callbacks,        \* this.callbacks
    now,              \* Date.now()
    foodSpawnedAt,    \* history: value of now when the current food was
                      \* spawned, if it is special (0 if it is normal)
    ticks,            \* history: simulation ticks since construction or reset
    ticked,           \* history: a simulation tick ran in the current second
    spawning,         \* the spawn loop that is under way, with its locals
    host,             \* what the host holds: results of getRenderData() and
                      \* getState(), and how often it has written to them
    store,            \* the StorageManager with localStorage
    audio             \* the AudioManager

vars == <<mode, state, snake, food, obstacles, specialFoodTimer,
          gameLoopInterval, gameTimeInterval, callbacks, now, foodSpawnedAt,
          ticks, ticked, spawning, host, store, audio>>

\* ------------------------------------------------------------------ helpers
Max(a, b) == IF a >= b THEN a ELSE b

Cell(x, y) == [x |-> x, y |-> y]

Grid == {Cell(x, y) : x \in 0..(Width - 1), y \in 0..(Height - 1)}

SeqRange(s) == {s[i] : i \in 1..Len(s)}

\* Utils.checkCollision
UtilsCheckCollision(obj1, obj2) == obj1.x = obj2.x /\ obj1.y = obj2.y

\* Utils.checkCollisionWithArray
UtilsCheckCollisionWithArray(obj, array, ignoreHead) ==
    LET startIndex == IF ignoreHead THEN 2 ELSE 1
    IN  \E i \in startIndex..Len(array) : UtilsCheckCollision(obj, array[i])

Opposite(d) ==
    CASE d = "up" -> "down"
      [] d = "down" -> "up"
      [] d = "left" -> "right"
      [] d = "right" -> "left"
      [] OTHER -> Null

\* the state object of the constructor and of resetState
FreshState ==
    [running |-> FALSE, paused |-> FALSE, gameOver |-> FALSE, score |-> 0,
     time |-> 0, foodEaten |-> 0, specialFoodEaten |-> 0,
     powerUpActive |-> FALSE, powerUpType |-> Null, powerUpEndTime |-> 0]

\* The engine as one value, so that the methods compose as they call each
\* other.  spawnedAt is the history variable foodSpawnedAt; emitted is the
\* sequence of handler invocations made since the current call or timer
\* callback began.
World ==
    [mode |-> mode, state |-> state, snake |-> snake, food |-> food,
     obstacles |-> obstacles, specialFoodTimer |-> specialFoodTimer,
     gameLoopInterval |-> gameLoopInterval,
     gameTimeInterval |-> gameTimeInterval, callbacks |-> callbacks,
     spawnedAt |-> foodSpawnedAt, emitted |-> <<>>]

Becomes(w) ==
    /\ mode' = w.mode
    /\ state' = w.state
    /\ snake' = w.snake
    /\ food' = w.food
    /\ obstacles' = w.obstacles
    /\ specialFoodTimer' = w.specialFoodTimer
    /\ gameLoopInterval' = w.gameLoopInterval
    /\ gameTimeInterval' = w.gameTimeInterval
    /\ callbacks' = w.callbacks
    /\ foodSpawnedAt' = w.spawnedAt

\* if (this.callbacks.event) this.callbacks.event(payload)
Emit(w, event, payload) ==
    IF w.callbacks[event] # Null
    THEN [w EXCEPT !.emitted =
              Append(w.emitted, [event |-> event, payload |-> payload])]
    ELSE w

\* --------------------------------------------------------------- the engine
\* getCurrentSpeed with the floor applied before the boost
getCurrentSpeedFloorFirst(st) ==
    LET speed == Max(MaxSpeed, Speed - (st.foodEaten * SpeedIncrease))
    IN  IF st.powerUpActive /\ st.powerUpType = "speedBoost"
        THEN speed * BoostFactor
        ELSE speed * IntervalScale

\* getCurrentSpeed with the ramp going the wrong way
getCurrentSpeedRampUp(st) ==
    LET speed == Speed + (st.foodEaten * SpeedIncrease)
        scaled == IF st.powerUpActive /\ st.powerUpType = "speedBoost"
                  THEN speed * BoostFactor
                  ELSE speed * IntervalScale
    IN  IF scaled >= MaxSpeed * IntervalScale THEN scaled
        ELSE MaxSpeed * IntervalScale

\* Game.getCurrentSpeed, in tenths of a millisecond
getCurrentSpeed(st) ==
    LET speed == Speed - (st.foodEaten * SpeedIncrease)
        scaled == IF st.powerUpActive /\ st.powerUpType = "speedBoost"
                  THEN speed * BoostFactor
                  ELSE speed * IntervalScale
    IN  Max(MaxSpeed * IntervalScale, scaled)

\* Game.clearTimers
clearTimers(w) ==
    [w EXCEPT !.gameLoopInterval = NoTimer,
              !.gameTimeInterval = NoTimer,
              !.specialFoodTimer = NoTimer]

\* resetState that leaves the timers alone
resetStateKeepsTimers(w) == [w EXCEPT !.state = FreshState]

\* Game.resetState
resetState(w) == clearTimers([w EXCEPT !.state = FreshState])

\* Game.initSnake: the growing flag is not touched
initSnake(w) ==
    LET centerX == Width \div 2
        centerY == Height \div 2
    IN  [w EXCEPT !.snake.body =
                      [i \in 1..InitialSnakeLength |->
                          Cell(centerX - (i - 1), centerY)],
                  !.snake.direction = "right",
                  !.snake.nextDirection = "right"]

\* Game.spawnFood: the set of its outcomes at time t.  The loop ends with a
\* grid cell that is on no snake cell and on no obstacle; Math.random() <
\* specialFoodChance (0.1) may be either way.  A special food arms the
\* expiry timer.
spawnFood(w, t) ==
    { [w EXCEPT !.food = [x |-> c.x, y |-> c.y,
                          type |-> IF isSpecial THEN "special" ELSE "normal"],
                !.spawnedAt = IF isSpecial THEN t ELSE 0,
                !.specialFoodTimer =
                    IF isSpecial THEN Timer(t + SpecialFoodDuration)
                                 ELSE NoTimer] :
        c \in {g \in Grid :
                  /\ ~UtilsCheckCollisionWithArray(g, w.snake.body, FALSE)
                  /\ ~\E i \in 1..Len(w.obstacles) :
                         UtilsCheckCollision(g, w.obstacles[i])},
        isSpecial \in BOOLEAN }

\* spawnObstacle that does not look at the food
spawnObstacleIgnoresFood(w) ==
    { [w EXCEPT !.obstacles = Append(w.obstacles, c)] :
        c \in {g \in Grid :
                  /\ ~UtilsCheckCollisionWithArray(g, w.snake.body, FALSE)
                  /\ ~\E i \in 1..Len(w.obstacles) :
                         UtilsCheckCollision(g, w.obstacles[i])} }

\* spawnObstacle that assigns the list instead of pushing onto it
spawnObstacleReplaces(w) ==
    { [w EXCEPT !.obstacles = <<c>>] :
        c \in {g \in Grid :
                  /\ ~UtilsCheckCollisionWithArray(g, w.snake.body, FALSE)
                  /\ ~UtilsCheckCollision(g, w.food)
                  /\ ~\E i \in 1..Len(w.obstacles) :
                         UtilsCheckCollision(g, w.obstacles[i])} }

\* Game.spawnObstacle: the set of its outcomes
spawnObstacle(w) ==
    { [w EXCEPT !.obstacles = Append(w.obstacles, c)] :
        c \in {g \in Grid :
                  /\ ~UtilsCheckCollisionWithArray(g, w.snake.body, FALSE)
                  /\ ~UtilsCheckCollision(g, w.food)
                  /\ ~\E i \in 1..Len(w.obstacles) :
                         UtilsCheckCollision(g, w.obstacles[i])} }

RECURSIVE spawnObstacles(_, _)
spawnObstacles(ws, n) ==
    IF n = 0 THEN ws
    ELSE spawnObstacles(UNION {spawnObstacle(w) : w \in ws}, n - 1)

\* Game.initObstacles
initObstacles(w) ==
    spawnObstacles({[w EXCEPT !.obstacles = <<>>]}, ObstacleCount)

\* Game.init: the set of its outcomes at time t
init(w, t) ==
    LET fed == spawnFood(initSnake(w), t)
        walled == IF w.mode = "obstacle"
                  THEN UNION {initObstacles(f) : f \in fed}
                  ELSE fed
    IN  {resetState(x) : x \in walled}

\* no spawn loop is under way
NotSpawning == [pc |-> "idle", isSpecial |-> FALSE, obstacle |-> Cell(0, 0)]

\* the host holds nothing of the engine
NoSnapshots == [renderData |-> << >>, state |-> << >>, writes |-> 0]

\* the engine after the field initialisers of the constructor, before init()
Constructed(m) ==
    [mode |-> m, state |-> FreshState,
     snake |-> [body |-> <<>>, direction |-> "right",
                nextDirection |-> "right", growing |-> FALSE],
     food |-> [x |-> 0, y |-> 0, type |-> "normal"],
     obstacles |-> <<>>, specialFoodTimer |-> NoTimer,
     gameLoopInterval |-> NoTimer, gameTimeInterval |-> NoTimer,
     callbacks |-> NoCallbacks, spawnedAt |-> 0, emitted |-> <<>>]

\* StorageManager (src/unnamed/part_000).  Of the six skins two are kept, of
\* the achievements one; the settings item is left out.
SkinIds == {"default", "pink"}

AchievementIds == {"highScorer"}

ItemKeys == {"skins", "stats", "achievements"}

\* this.defaultSkins, this.defaultStats and this.defaultAchievements as the
\* constructor builds them
DefaultSkins ==
    [id \in SkinIds |-> [unlocked |-> id = "default",
                         selected |-> id = "default"]]

DefaultStats == [highScores |-> [m \in Modes |-> 0]]

DefaultAchievements ==
    [id \in AchievementIds |-> [progress |-> 0, unlocked |-> FALSE]]

\* the state after new StorageManager(), localStorage empty and supported or
\* not: the items of localStorage under the prefix (has: which exist), the
\* default objects of the manager, and the properties unlocked and selected
\* of the global Object constructor (undefined reads as FALSE)
NewStorage(sup) ==
    [supported |-> sup,
     has |-> [k \in ItemKeys |-> FALSE],
     skins |-> DefaultSkins,
     stats |-> DefaultStats,
     achievements |-> DefaultAchievements,
     defaultSkins |-> DefaultSkins,
     defaultStats |-> DefaultStats,
     defaultAchievements |-> DefaultAchievements,
     object |-> [unlocked |-> FALSE, selected |-> FALSE]]

\* AudioManager (src/js/audio.js).  Four of the eight audio files are kept.
Tracks == {"backgroundMusic", "gameOver", "eat", "powerUp"}

\* the state after new AudioManager(), Web Audio supported or not: what
\* this.audioBuffers holds for each name, this.currentMusic (its name and
\* loop flag), and the sources and elements that are sounding
NewAudio(sup) ==
    [supported |-> sup,
     initialized |-> FALSE,
     musicEnabled |-> TRUE,
     audioBuffers |-> [n \in Tracks |-> "none"],
     currentMusic |-> [name |-> Null, loop |-> FALSE],
     sounding |-> [n \in Tracks |-> 0]]

\* the state after new Game({mode: m, ...}), for m in modes
Games(modes) ==
    /\ now = 0
    /\ ticks = 0
    /\ ticked = FALSE
    /\ spawning = NotSpawning
    /\ host = NoSnapshots
    /\ \E m \in modes : \E w \in init(Constructed(m), 0) :
          /\ mode = w.mode
          /\ state = w.state
          /\ snake = w.snake
          /\ food = w.food
          /\ obstacles = w.obstacles
          /\ specialFoodTimer = w.specialFoodTimer
          /\ gameLoopInterval = w.gameLoopInterval
          /\ gameTimeInterval = w.gameTimeInterval
          /\ callbacks = w.callbacks
          /\ foodSpawnedAt = w.spawnedAt

\* the same beside a storage manager and an audio manager that are not used
Constructions(modes) ==
    /\ Games(modes)
    /\ store = NewStorage(TRUE)
    /\ audio = NewAudio(TRUE)

\* obstacle mode differs from classic in nothing that reads the clock
Init == Constructions({"classic", "timeAttack"})

\* endGame without the test of the running flag
endGameAlways(w) ==
    Emit(clearTimers([w EXCEPT !.state.running = FALSE,
                               !.state.gameOver = TRUE]),
         "onGameOver",
         [score |-> w.state.score, time |-> w.state.time,
          foodEaten |-> w.state.foodEaten,
          specialFoodEaten |-> w.state.specialFoodEaten,
          mode |-> w.mode])

\* endGame that leaves the timers running
endGameKeepsTimers(w) ==
    IF ~w.state.running THEN w
    ELSE [w EXCEPT !.state.running = FALSE, !.state.gameOver = TRUE]

\* Game.endGame
endGame(w) ==
    IF ~w.state.running THEN w
    ELSE Emit(clearTimers([w EXCEPT !.state.running = FALSE,
                                    !.state.gameOver = TRUE]),
              "onGameOver",
              [score |-> w.state.score, time |-> w.state.time,
               foodEaten |-> w.state.foodEaten,
               specialFoodEaten |-> w.state.specialFoodEaten,
               mode |-> w.mode])

\* start without the test of the running flag
startAlways(w, t) ==
    LET st == [w.state EXCEPT !.running = TRUE, !.paused = FALSE,
                              !.gameOver = FALSE]
    IN  [w EXCEPT !.state = st,
                  !.gameLoopInterval = Timer(getCurrentSpeed(st)),
                  !.gameTimeInterval = Timer(t + SecondMs)]

\* Game.start at time t
start(w, t) ==
    IF w.state.running THEN w
    ELSE LET st == [w.state EXCEPT !.running = TRUE, !.paused = FALSE,
                                   !.gameOver = FALSE]
         IN  [w EXCEPT !.state = st,
                       !.gameLoopInterval = Timer(getCurrentSpeed(st)),
                       !.gameTimeInterval = Timer(t + SecondMs)]

\* pause that stops the simulation timer only
pauseKeepsWallClock(w) ==
    IF ~w.state.running \/ w.state.paused THEN w
    ELSE [w EXCEPT !.state.paused = TRUE,
                   !.gameLoopInterval = NoTimer]

\* Game.pause: the special-food timer is left alone
pause(w) ==
    IF ~w.state.running \/ w.state.paused THEN w
    ELSE [w EXCEPT !.state.paused = TRUE,
                   !.gameLoopInterval = NoTimer,
                   !.gameTimeInterval = NoTimer]

\* resume that restarts the simulation timer at the base interval
resumeAtBaseSpeed(w, t) ==
    IF ~w.state.running \/ ~w.state.paused THEN w
    ELSE [w EXCEPT !.state.paused = FALSE,
                   !.gameLoopInterval = Timer(Speed * IntervalScale),
                   !.gameTimeInterval = Timer(t + SecondMs)]

\* Game.resume at time t
resume(w, t) ==
    IF ~w.state.running \/ ~w.state.paused THEN w
    ELSE LET st == [w.state EXCEPT !.paused = FALSE]
         IN  [w EXCEPT !.state = st,
                       !.gameLoopInterval = Timer(getCurrentSpeed(st)),
                       !.gameTimeInterval = Timer(t + SecondMs)]

\* Game.reset at time t: the set of its outcomes
reset(w, t) == init(clearTimers(w), t)

\* the wall-clock callback with the time limit applied in every mode
gameTimeTickAnyMode(w, t) ==
    LET counted == [w EXCEPT !.state.time = w.state.time + 1]
        ended == IF counted.state.time >= TimeLimit
                 THEN endGame(counted)
                 ELSE counted
        told == Emit(ended, "onTimeUpdate", [value |-> ended.state.time])
    IN  IF ~told.gameTimeInterval.pending THEN told
        ELSE [told EXCEPT !.gameTimeInterval = Timer(t + SecondMs)]

\* the wall-clock callback with the time limit passed before the game ends
gameTimeTickLate(w, t) ==
    LET counted == [w EXCEPT !.state.time = w.state.time + 1]
        ended == IF counted.mode = "timeAttack"
                    /\ counted.state.time > TimeLimit
                 THEN endGame(counted)
                 ELSE counted
        told == Emit(ended, "onTimeUpdate", [value |-> ended.state.time])
    IN  IF ~told.gameTimeInterval.pending THEN told
        ELSE [told EXCEPT !.gameTimeInterval = Timer(t + SecondMs)]

\* the callback of the wall-clock timer (game.js 227-239, 271-283) at time t
gameTimeTick(w, t) ==
    LET counted == [w EXCEPT !.state.time = w.state.time + 1]
        ended == IF counted.mode = "timeAttack"
                    /\ counted.state.time >= TimeLimit
                 THEN endGame(counted)
                 ELSE counted
        told == Emit(ended, "onTimeUpdate", [value |-> ended.state.time])
    IN  IF ~told.gameTimeInterval.pending THEN told
        ELSE [told EXCEPT !.gameTimeInterval = Timer(t + SecondMs)]

WallPassActive(st) == st.powerUpActive /\ st.powerUpType = "wallPass"

InvincibleActive(st) == st.powerUpActive /\ st.powerUpType = "invincible"

\* the head after one step in direction d (game.js 349-365)
Shifted(head, d) ==
    CASE d = "up" -> Cell(head.x, head.y - 1)
      [] d = "down" -> Cell(head.x, head.y + 1)
      [] d = "left" -> Cell(head.x - 1, head.y)
      [] d = "right" -> Cell(head.x + 1, head.y)
      [] OTHER -> head

\* a wrap that comes back in one cell past the far edge
WrappedPastEdge(head) ==
    LET x1 == IF head.x < 0 THEN Width ELSE head.x
        x2 == IF x1 > Width THEN 0 ELSE x1
        y1 == IF head.y < 0 THEN Height ELSE head.y
        y2 == IF y1 > Height THEN 0 ELSE y1
    IN  Cell(x2, y2)

\* the wrap of the wallPass power-up (game.js 370-373)
Wrapped(head) ==
    LET x1 == IF head.x < 0 THEN Width - 1 ELSE head.x
        x2 == IF x1 >= Width THEN 0 ELSE x1
        y1 == IF head.y < 0 THEN Height - 1 ELSE head.y
        y2 == IF y1 >= Height THEN 0 ELSE y1
    IN  Cell(x2, y2)

\* moveSnake that always drops the tail
moveSnakeNeverGrows(w) ==
    LET stepped == Shifted(w.snake.body[1], w.snake.direction)
        head == IF w.state.powerUpActive /\ w.state.powerUpType = "wallPass"
                THEN Wrapped(stepped) ELSE stepped
        longer == <<head>> \o w.snake.body
    IN  [w EXCEPT !.snake.body = SubSeq(longer, 1, Len(longer) - 1),
                  !.snake.growing = FALSE]

\* Game.moveSnake
moveSnake(w) ==
    LET stepped == Shifted(w.snake.body[1], w.snake.direction)
        head == IF WallPassActive(w.state) THEN Wrapped(stepped) ELSE stepped
        longer == <<head>> \o w.snake.body
    IN  IF ~w.snake.growing
        THEN [w EXCEPT !.snake.body = SubSeq(longer, 1, Len(longer) - 1)]
        ELSE [w EXCEPT !.snake.body = longer, !.snake.growing = FALSE]

\* checkCollision that gives the invincible power-up no immunity
checkCollisionNoImmunity(w) ==
    LET head == w.snake.body[1]
    IN  \/ /\ ~(w.state.powerUpActive /\ w.state.powerUpType = "wallPass")
           /\ (head.x < 0 \/ head.x >= Width \/ head.y < 0 \/ head.y >= Height)
        \/ \E i \in 2..Len(w.snake.body) :
              head.x = w.snake.body[i].x /\ head.y = w.snake.body[i].y
        \/ /\ w.mode = "obstacle"
           /\ \E i \in 1..Len(w.obstacles) :
                 head.x = w.obstacles[i].x /\ head.y = w.obstacles[i].y

\* checkCollision whose self test stops before the last body cell
checkCollisionSkipsTail(w) ==
    LET head == w.snake.body[1]
    IN  \/ /\ ~WallPassActive(w.state)
           /\ (head.x < 0 \/ head.x >= Width \/ head.y < 0 \/ head.y >= Height)
        \/ /\ ~InvincibleActive(w.state)
           /\ \E i \in 2..(Len(w.snake.body) - 1) :
                 head.x = w.snake.body[i].x /\ head.y = w.snake.body[i].y
        \/ /\ w.mode = "obstacle"
           /\ ~InvincibleActive(w.state)
           /\ \E i \in 1..Len(w.obstacles) :
                 head.x = w.obstacles[i].x /\ head.y = w.obstacles[i].y

\* Game.checkCollision
checkCollision(w) ==
    LET head == w.snake.body[1]
    IN  \/ /\ ~WallPassActive(w.state)
           /\ (head.x < 0 \/ head.x >= Width \/ head.y < 0 \/ head.y >= Height)
        \/ /\ ~InvincibleActive(w.state)
           /\ \E i \in 2..Len(w.snake.body) :
                 head.x = w.snake.body[i].x /\ head.y = w.snake.body[i].y
        \/ /\ w.mode = "obstacle"
           /\ ~InvincibleActive(w.state)
           /\ \E i \in 1..Len(w.obstacles) :
                 head.x = w.obstacles[i].x /\ head.y = w.obstacles[i].y

\* Game.activatePowerUp at time t: the set of its outcomes
activatePowerUp(w, t) ==
    { Emit([w EXCEPT !.state.powerUpActive = TRUE,
                     !.state.powerUpType = PowerUps[k],
                     !.state.powerUpEndTime = t + PowerUpDuration],
           "onPowerUpActivate", [type |-> PowerUps[k]]) :
        k \in 1..Len(PowerUps) }

\* Game.checkPowerUps at time t: the simulation timer is not rescheduled
checkPowerUps(w, t) ==
    IF w.state.powerUpActive /\ t >= w.state.powerUpEndTime
    THEN Emit([w EXCEPT !.state.powerUpActive = FALSE,
                        !.state.powerUpType = Null],
              "onPowerUpEnd", [type |-> w.state.powerUpType])
    ELSE w

\* addScore that assigns the points
addScoreAssigns(w, points) ==
    Emit([w EXCEPT !.state.score = points], "onScoreChange",
         [value |-> points])

\* Game.addScore
addScore(w, points) ==
    Emit([w EXCEPT !.state.score = w.state.score + points],
         "onScoreChange", [value |-> w.state.score + points])

\* the end of checkFood (game.js 466-469)
Rescheduled(w) ==
    IF w.gameLoopInterval.set
    THEN [w EXCEPT !.gameLoopInterval = Timer(getCurrentSpeed(w.state))]
    ELSE w

\* Game.checkFood at time t: the set of its outcomes
checkFood(w, t) ==
    LET head == w.snake.body[1]
        special == w.food.type = "special"
    IN  IF ~(head.x = w.food.x /\ head.y = w.food.y) THEN {w}
        ELSE
          LET scored == addScore(w, IF special THEN SpecialScore
                                               ELSE NormalScore)
              counted == [scored EXCEPT
                            !.state.foodEaten = scored.state.foodEaten + 1]
              powered ==
                  IF special
                  THEN { Emit(a, "onSpecialFoodEaten",
                              [value |-> a.state.specialFoodEaten]) :
                           a \in activatePowerUp(
                                   [counted EXCEPT !.state.specialFoodEaten =
                                        counted.state.specialFoodEaten + 1],
                                   t) }
                  ELSE {counted}
              told == { Emit(p, "onFoodEaten", [value |-> p.state.foodEaten]) :
                          p \in powered }
              grown == {[p EXCEPT !.snake.growing = TRUE] : p \in told}
              fed == UNION {spawnFood(g, t) : g \in grown}
              \* Math.random() < 0.3 may be either way
              walled == IF w.mode = "obstacle"
                           /\ Len(w.obstacles) < MaxObstacles
                        THEN fed \cup UNION {spawnObstacle(f) : f \in fed}
                        ELSE fed
          IN  {Rescheduled(x) : x \in walled}

\* Game.gameLoop at time t: the set of its outcomes
gameLoop(w, t) ==
    LET turned == [w EXCEPT !.snake.direction = w.snake.nextDirection]
        moved == moveSnake(turned)
    IN  IF checkCollision(moved) THEN {endGame(moved)}
        ELSE {checkPowerUps(x, t) : x \in checkFood(moved, t)}

\* changeDirection that compares with the buffered direction
changeDirectionAgainstBuffer(w, direction) ==
    IF \/ direction = "up" /\ w.snake.nextDirection # "down"
       \/ direction = "down" /\ w.snake.nextDirection # "up"
       \/ direction = "left" /\ w.snake.nextDirection # "right"
       \/ direction = "right" /\ w.snake.nextDirection # "left"
    THEN [w EXCEPT !.snake.nextDirection = direction]
    ELSE w

\* changeDirection that accepts every cardinal direction
changeDirectionAnyCardinal(w, direction) ==
    IF direction \in {"up", "down", "left", "right"}
    THEN [w EXCEPT !.snake.nextDirection = direction]
    ELSE w

\* Game.changeDirection
changeDirection(w, direction) ==
    IF \/ direction = "up" /\ w.snake.direction # "down"
       \/ direction = "down" /\ w.snake.direction # "up"
       \/ direction = "left" /\ w.snake.direction # "right"
       \/ direction = "right" /\ w.snake.direction # "left"
    THEN [w EXCEPT !.snake.nextDirection = direction]
    ELSE w

\* on without the hasOwnProperty test
onAnyName(w, event, callback) ==
    [w EXCEPT !.callbacks =
        [e \in DOMAIN w.callbacks \cup {event} |->
            IF e = event THEN callback ELSE w.callbacks[e]]]

\* Game.on: callback is a handler or null
on(w, event, callback) ==
    IF event \in DOMAIN w.callbacks
    THEN [w EXCEPT !.callbacks[event] = callback]
    ELSE w

\* destroy that keeps the handlers
destroyKeepsCallbacks(w) == clearTimers(w)

\* Game.destroy: the run state is left as it is
destroy(w) == [clearTimers(w) EXCEPT !.callbacks = [e \in Events |-> Null]]

\* the callback of the special-food timer (game.js 510-515) at time t
specialFoodExpire(w, t) ==
    LET fired == [w EXCEPT !.specialFoodTimer.pending = FALSE]
    IN  IF fired.food.type = "special" THEN spawnFood(fired, t) ELSE {fired}

\* ------------------------------------------------------------------ actions
Start ==
    /\ Becomes(start(World, now))
    /\ UNCHANGED <<now, ticks, ticked, spawning, host, store, audio>>

Pause ==
    /\ Becomes(pause(World))
    /\ UNCHANGED <<now, ticks, ticked, spawning, host, store, audio>>

Resume ==
    /\ Becomes(resume(World, now))
    /\ UNCHANGED <<now, ticks, ticked, spawning, host, store, audio>>

EndGame ==
    /\ Becomes(endGame(World))
    /\ UNCHANGED <<now, ticks, ticked, spawning, host, store, audio>>

\* reset() cancels every timer and forgets the power-up, and the food it
\* spawns is new: no instant recorded before it is read after it, so the
\* clock and the tick count start again.
Reset ==
    /\ \E w \in reset(World, 0) : Becomes(w)
    /\ now' = 0
    /\ ticks' = 0
    /\ ticked' = FALSE
    /\ UNCHANGED <<spawning, host, store, audio>>

ChangeDirection ==
    /\ \E d \in DirectionInputs : Becomes(changeDirection(World, d))
    /\ UNCHANGED <<now, ticks, ticked, spawning, host, store, audio>>

\* the simulation timer fires, at most limit times in a run
Tick(limit) ==
    /\ gameLoopInterval.pending
    /\ ticks < limit
    /\ \E w \in gameLoop(World, now) : Becomes(w)
    /\ ticks' = ticks + 1
    /\ ticked' = TRUE
    /\ UNCHANGED <<now, spawning, host, store, audio>>

GameLoop == Tick(MaxTimedTicks)

\* the wall-clock timer fires
GameTimeTick ==
    /\ gameTimeInterval.pending
    /\ gameTimeInterval.at <= now
    /\ Becomes(gameTimeTick(World, now))
    /\ UNCHANGED <<now, ticks, ticked, spawning, host, store, audio>>

\* the special-food timer fires
SpecialFoodExpire ==
    /\ specialFoodTimer.pending
    /\ specialFoodTimer.at <= now
    /\ \E w \in specialFoodExpire(World, now) : Becomes(w)
    /\ UNCHANGED <<now, ticks, ticked, spawning, host, store, audio>>

\* the host registers or removes a handler
On ==
    /\ \E e \in EventInputs : \E h \in Handlers \cup {Null} :
          /\ h # Null /\ e \in Events /\ callbacks[e] = Null =>
                 Cardinality({x \in Events : callbacks[x] # Null})
                     < MaxHandlers
          /\ Becomes(on(World, e, h))
    /\ UNCHANGED <<now, ticks, ticked, spawning, host, store, audio>>

Destroy ==
    /\ Becomes(destroy(World))
    /\ UNCHANGED <<now, ticks, ticked, spawning, host, store, audio>>

\* The engine reads the clock only to set a deadline (special-food timer,
\* power-up end, next wall-clock tick) and to compare with one.  While none is
\* outstanding and no special food is on the board, the passage of time
\* changes nothing a later step can tell, and is left out.
TimeMatters ==
    \/ gameTimeInterval.pending
    \/ specialFoodTimer.pending
    \/ state.powerUpActive
    \/ food.type = "special" /\ now <= foodSpawnedAt + SpecialFoodDuration

\* one second passes; a timer that is due fires first
Advance ==
    /\ now < MaxSeconds * SecondMs
    /\ TimeMatters
    /\ gameLoopInterval.pending => ticked
    /\ ~gameTimeInterval.pending \/ gameTimeInterval.at > now
    /\ ~specialFoodTimer.pending \/ specialFoodTimer.at > now
    /\ now' = now + SecondMs
    /\ ticked' = FALSE
    /\ UNCHANGED <<mode, state, snake, food, obstacles, specialFoodTimer,
                   gameLoopInterval, gameTimeInterval, callbacks,
                   foodSpawnedAt, ticks, spawning, host, store, audio>>

\* The engine through one game and its restarts, with the clock running.
Next ==
    \/ Start
    \/ Pause
    \/ Resume
    \/ ChangeDirection
    \/ GameLoop
    \/ GameTimeTick
    \/ SpecialFoodExpire
    \/ Advance

Spec == Init /\ [][Next]_vars

\* The engine across games, where no time passes: no timeout expires and the
\* wall clock does not tick, and the simulation timer has a longer run.
\* timeAttack differs from classic only in the wall-clock tick.
PlayInit == Constructions({"classic", "obstacle"})

PlayGameLoop ==
    Tick(IF mode = "obstacle" THEN MaxObstacleTicks ELSE MaxTicks)

PlayNext ==
    \/ Start
    \/ Pause
    \/ Resume
    \/ EndGame
    \/ Reset
    \/ ChangeDirection
    \/ PlayGameLoop

PlaySpec == PlayInit /\ [][PlayNext]_vars

\* The engine with its host: handlers are registered and removed, the engine
\* is destroyed, and the clock runs.  The snake is not steered, so that a
\* game is the straight run from the centre to the right wall.
HostInit == Constructions({"timeAttack"})

HostGameLoop == Tick(MaxHostTicks)

HostNext ==
    \/ On
    \/ Destroy
    \/ Start
    \/ Pause
    \/ Resume
    \/ EndGame
    \/ HostGameLoop
    \/ GameTimeTick
    \/ SpecialFoodExpire
    \/ Advance

HostSpec == HostInit /\ [][HostNext]_vars

\* One game of classic mode, steered, long enough for the snake to grow and
\* to turn back on its tail; no time passes.
CoilInit == Constructions({"classic"})

CoilGameLoop == Tick(MaxCoilTicks)

CoilNext ==
    \/ Start
    \/ ChangeDirection
    \/ CoilGameLoop

CoilSpec == CoilInit /\ [][CoilNext]_vars

\* The two spawn loops, one iteration at a step, in a game that has gone on
\* for a while: the snake lies along the path that runs through the grid row
\* by row, the obstacles of obstacle mode on the cells after it, and the tick
\* has just eaten the food under the head and entered spawnFood().
PathCell(k) ==
    LET y == k \div Width
    IN  Cell(IF y % 2 = 0 THEN k % Width ELSE Width - 1 - (k % Width), y)

\* the direction of the step from cell a to its neighbour b
StepDirection(a, b) ==
    CASE b.x > a.x -> "right"
      [] b.x < a.x -> "left"
      [] b.y > a.y -> "down"
      [] OTHER -> "up"

\* the engine in checkFood, at the head of the loop of spawnFood (game.js
\* 488), after meals foods, with a snake of n cells and k obstacles
InSpawnFood(m, n, k, isSpecial) ==
    LET meals == n - InitialSnakeLength + 1
        heading == StepDirection(PathCell(n - 2), PathCell(n - 1))
    IN  /\ mode = m
        /\ state = [FreshState EXCEPT !.running = TRUE, !.score = meals,
                                      !.foodEaten = meals]
        /\ snake = [body |-> [i \in 1..n |-> PathCell(n - i)],
                    direction |-> heading, nextDirection |-> heading,
                    growing |-> TRUE]
        /\ food = [x |-> PathCell(n - 1).x, y |-> PathCell(n - 1).y,
                   type |-> "normal"]
        /\ obstacles = [i \in 1..k |-> PathCell(n - 1 + i)]
        /\ specialFoodTimer = NoTimer
        /\ gameLoopInterval =
               Timer(getCurrentSpeed([state EXCEPT !.foodEaten = meals - 1]))
        /\ gameTimeInterval = Timer(SecondMs)
        /\ callbacks = NoCallbacks
        /\ now = 0
        /\ foodSpawnedAt = 0
        /\ ticks = 0
        /\ ticked = TRUE
        /\ spawning = [NotSpawning EXCEPT !.pc = "food",
                                          !.isSpecial = isSpecial]
        /\ host = NoSnapshots
        /\ store = NewStorage(TRUE)
        /\ audio = NewAudio(TRUE)

SpawnInit ==
    \E m \in {"classic", "obstacle"} :
        \E n \in InitialSnakeLength..(Width * Height) :
            \E k \in 0..(Width * Height - n) : \E isSpecial \in BOOLEAN :
                /\ m = "classic" => k = 0
                /\ InSpawnFood(m, n, k, isSpecial)

\* one iteration of the loop of spawnFood that draws cell c (game.js
\* 488-506); when the loop ends, the rest of spawnFood (508-516) and what
\* checkFood does next: it enters spawnObstacle (Math.random() < 0.3 may be
\* either way) or reschedules the simulation timer
SpawnFoodDraw(c) ==
    LET drawn == [x |-> c.x, y |-> c.y,
                  type |-> IF spawning.isSpecial THEN "special" ELSE "normal"]
        collidesWithSnake ==
            UtilsCheckCollisionWithArray(drawn, snake.body, FALSE)
        collidesWithObstacles ==
            \E i \in 1..Len(obstacles) : UtilsCheckCollision(drawn, obstacles[i])
        validPosition == ~collidesWithSnake /\ ~collidesWithObstacles
    IN  /\ spawning.pc = "food"
        /\ food' = drawn
        /\ IF validPosition
           THEN /\ specialFoodTimer' =
                       IF spawning.isSpecial
                       THEN Timer(now + SpecialFoodDuration)
                       ELSE specialFoodTimer
                /\ foodSpawnedAt' = IF spawning.isSpecial THEN now ELSE 0
                /\ \E more \in BOOLEAN :
                      /\ more => mode = "obstacle"
                      /\ spawning' =
                             [spawning EXCEPT
                                 !.pc = IF more THEN "obstacle" ELSE "idle"]
                      /\ gameLoopInterval' =
                             IF more THEN gameLoopInterval
                             ELSE Rescheduled(World).gameLoopInterval
           ELSE UNCHANGED <<specialFoodTimer, foodSpawnedAt, spawning,
                            gameLoopInterval>>
        /\ UNCHANGED <<mode, state, snake, obstacles, gameTimeInterval,
                       callbacks, now, ticks, ticked, host, store, audio>>

\* one iteration of the loop of spawnObstacle that draws cell c (game.js
\* 147-166); when the loop ends, the push (168) and the rest of checkFood
SpawnObstacleDraw(c) ==
    LET collidesWithSnake == UtilsCheckCollisionWithArray(c, snake.body, FALSE)
        collidesWithFood == UtilsCheckCollision(c, food)
        collidesWithObstacles ==
            \E i \in 1..Len(obstacles) : UtilsCheckCollision(c, obstacles[i])
        validPosition ==
            ~collidesWithSnake /\ ~collidesWithFood /\ ~collidesWithObstacles
    IN  /\ spawning.pc = "obstacle"
        /\ IF validPosition
           THEN /\ obstacles' = Append(obstacles, c)
                /\ spawning' = [spawning EXCEPT !.pc = "idle", !.obstacle = c]
                /\ gameLoopInterval' = Rescheduled(World).gameLoopInterval
           ELSE /\ spawning' = [spawning EXCEPT !.obstacle = c]
                /\ UNCHANGED <<obstacles, gameLoopInterval>>
        /\ UNCHANGED <<mode, state, snake, food, specialFoodTimer,
                       gameTimeInterval, callbacks, now, foodSpawnedAt, ticks,
                       ticked, host, store, audio>>

SpawnFoodStep == \E c \in Grid : SpawnFoodDraw(c)

SpawnObstacleStep == \E c \in Grid : SpawnObstacleDraw(c)

SpawnNext ==
    \/ SpawnFoodStep
    \/ SpawnObstacleStep

\* Utils.getRandomInt draws every cell of the grid with the same chance, so
\* a loop that goes on draws each cell again and again.
SpawnFair ==
    \A c \in Grid :
        /\ WF_vars(SpawnFoodDraw(c))
        /\ WF_vars(SpawnObstacleDraw(c))

SpawnSpec == SpawnInit /\ [][SpawnNext]_vars /\ SpawnFair

\* The host with what getRenderData() and getState() give it.  A cell object
\* of the engine is known by its place: element index of this.snake.body or
\* of this.obstacles.
Ref(array, index) == [array |-> array, index |-> index]

\* Game.getRenderData: [...array] is a new array of the same element
\* objects, {...this.food} a new object with the fields of the food; width,
\* height and powerUp are primitive values (gridSize, a number the engine
\* does not use, is left out)
getRenderData(w) ==
    [snake |-> [i \in 1..Len(w.snake.body) |-> Ref("body", i)],
     food |-> w.food,
     obstacles |-> [i \in 1..Len(w.obstacles) |-> Ref("obstacles", i)],
     width |-> Width,
     height |-> Height,
     powerUp |-> IF w.state.powerUpActive THEN w.state.powerUpType ELSE Null]

\* Game.getState: {...this.state} is a new object with the fields of the
\* state, all of them primitive values
getState(w) == w.state

\* the host's assignment ref.field = v to an element of a list it holds
WriteThrough(w, ref, field, v) ==
    IF ref.array = "body"
    THEN [w EXCEPT !.snake.body[ref.index][field] = v]
    ELSE [w EXCEPT !.obstacles[ref.index][field] = v]

\* the values the host writes: a coordinate just outside the grid
WriteValues == {0 - 1, Width}

\* every assignment the host can make to a field of something reachable
\* from what it holds, with the engine and the holdings that come of it
HostWrites ==
    LET held == IF host.renderData = << >> THEN {} ELSE {host.renderData[1]}
        cells == UNION {SeqRange(d.snake) \cup SeqRange(d.obstacles) :
                          d \in held}
    IN  { [engine |-> WriteThrough(World, ref, field, v), host |-> host] :
            ref \in cells, field \in {"x", "y"}, v \in WriteValues }
        \cup
        { [engine |-> World,
           host |-> [host EXCEPT !.renderData[1].food[field] = v]] :
            d \in held, field \in {"x", "y"}, v \in WriteValues }
        \cup
        { [engine |-> World,
           host |-> [host EXCEPT !.state[1].score = v]] :
            s \in IF host.state = << >> THEN {} ELSE {host.state[1]},
            v \in WriteValues }

GetRenderData ==
    /\ host' = [host EXCEPT !.renderData = <<getRenderData(World)>>]
    /\ UNCHANGED <<mode, state, snake, food, obstacles, specialFoodTimer,
                   gameLoopInterval, gameTimeInterval, callbacks, now,
                   foodSpawnedAt, ticks, ticked, spawning, store,
                   audio>>

GetState ==
    /\ host' = [host EXCEPT !.state = <<getState(World)>>]
    /\ UNCHANGED <<mode, state, snake, food, obstacles, specialFoodTimer,
                   gameLoopInterval, gameTimeInterval, callbacks, now,
                   foodSpawnedAt, ticks, ticked, spawning, store,
                   audio>>

\* the host writes to what it holds, at most MaxWrites times
HostWrite ==
    /\ host.writes < MaxWrites
    /\ \E r \in HostWrites :
          /\ Becomes(r.engine)
          /\ host' = [r.host EXCEPT !.writes = host.writes + 1]
    /\ UNCHANGED <<now, ticks, ticked, spawning, store, audio>>

\* The engine before its first tick, in obstacle mode, and a host that takes
\* snapshots and writes to them.
RenderInit == Constructions({"obstacle"})

RenderNext ==
    \/ Start
    \/ Pause
    \/ GetRenderData
    \/ GetState
    \/ HostWrite

RenderSpec == RenderInit /\ [][RenderNext]_vars

\* A host whose handler calls back into the engine.  The handler registered
\* for an event is known by the one call it makes: pause(), endGame() or
\* reset().
Calls == {"pause", "endGame", "reset"}

\* the events whose handlers checkFood invokes (game.js 575-582, 533-535,
\* 445-447, 451-453)
TickEvents ==
    {"onScoreChange", "onPowerUpActivate", "onSpecialFoodEaten", "onFoodEaten"}

\* the engine after the handler of event has run, if it is one that calls
\* back: the set of its outcomes at time t
Handled(w, event, t) ==
    CASE w.callbacks[event] = "pause" -> {pause(w)}
      [] w.callbacks[event] = "endGame" -> {endGame(w)}
      [] w.callbacks[event] = "reset" ->
             {[r EXCEPT !.emitted = w.emitted] : r \in reset(w, t)}
      [] OTHER -> {w}

\* Game.checkFood at time t, with the handlers run where the code invokes
\* them; this.food.type is read again after each of them
checkFoodCalling(w, t) ==
    LET head == w.snake.body[1]
    IN  IF ~(head.x = w.food.x /\ head.y = w.food.y) THEN {w}
        ELSE
          LET scored == Handled(addScore(w, IF w.food.type = "special"
                                            THEN SpecialScore
                                            ELSE NormalScore),
                                "onScoreChange", t)
              counted == {[s EXCEPT !.state.foodEaten = s.state.foodEaten + 1] :
                            s \in scored}
              activated(c) ==
                  UNION {Handled(a, "onPowerUpActivate", t) :
                           a \in activatePowerUp(
                                   [c EXCEPT !.state.specialFoodEaten =
                                        c.state.specialFoodEaten + 1],
                                   t)}
              powered(c) ==
                  IF c.food.type = "special"
                  THEN UNION {Handled(Emit(a, "onSpecialFoodEaten",
                                           [value |->
                                               a.state.specialFoodEaten]),
                                      "onSpecialFoodEaten", t) :
                                a \in activated(c)}
                  ELSE {c}
              told == UNION {Handled(Emit(p, "onFoodEaten",
                                          [value |-> p.state.foodEaten]),
                                     "onFoodEaten", t) :
                               p \in UNION {powered(c) : c \in counted}}
              grown == {[p EXCEPT !.snake.growing = TRUE] : p \in told}
              fed == UNION {spawnFood(g, t) : g \in grown}
              walled == UNION {IF f.mode = "obstacle"
                                  /\ Len(f.obstacles) < MaxObstacles
                               THEN {f} \cup spawnObstacle(f)
                               ELSE {f} : f \in fed}
          IN  {Rescheduled(x) : x \in walled}

\* Game.gameLoop at time t, with the handlers run
gameLoopCalling(w, t) ==
    LET turned == [w EXCEPT !.snake.direction = w.snake.nextDirection]
        moved == moveSnake(turned)
    IN  IF checkCollision(moved) THEN {endGame(moved)}
        ELSE {checkPowerUps(x, t) : x \in checkFoodCalling(moved, t)}

\* the host registers a handler that calls back, for one event
OnCalling ==
    /\ callbacks = NoCallbacks
    /\ \E e \in TickEvents : \E c \in Calls : Becomes(on(World, e, c))
    /\ UNCHANGED <<now, ticks, ticked, spawning, host, store, audio>>

\* the simulation timer fires, at most MaxCallingTicks times in a run
CallingGameLoop ==
    /\ gameLoopInterval.pending
    /\ ticks < MaxCallingTicks
    /\ \E w \in gameLoopCalling(World, now) : Becomes(w)
    /\ ticks' = ticks + 1
    /\ ticked' = TRUE
    /\ UNCHANGED <<now, spawning, host, store, audio>>

\* The engine in classic and obstacle mode with such a host; no time passes.
CallingInit == Constructions({"classic", "obstacle"})

CallingNext ==
    \/ OnCalling
    \/ Start
    \/ CallingGameLoop

CallingSpec == CallingInit /\ [][CallingNext]_vars

\* Game.setConfig({mode: m}) at time t: the set of its outcomes.  The new
\* configuration is merged in, and an engine that is not running is reset.
setConfig(w, m, t) ==
    LET merged == [w EXCEPT !.mode = m]
    IN  IF ~merged.state.running THEN reset(merged, t) ELSE {merged}

\* the host changes the mode
SetConfig ==
    /\ \E m \in Modes : \E w \in setConfig(World, m, now) : Becomes(w)
    /\ UNCHANGED <<now, ticks, ticked, spawning, host, store, audio>>

ConfigGameLoop == Tick(MaxConfigTicks)

\* The engine in every mode with a host that changes the mode; no time
\* passes.
ConfigInit == Constructions(Modes)

ConfigNext ==
    \/ SetConfig
    \/ Start
    \/ EndGame
    \/ ConfigGameLoop

ConfigSpec == ConfigInit /\ [][ConfigNext]_vars

\* property names a plain object inherits from Object.prototype; of them,
\* constructor, whose value is the global Object function
InheritedNames == {"constructor"}

\* what a caller may pass as a skin id: a skin, an inherited name, or a name
\* that is no property at all
SkinIdInputs == SkinIds \cup InheritedNames \cup {"unknown"}

\* StorageManager.getItem(key) is not null
HasItem(s, key) == s.supported /\ s.has[key]

\* StorageManager.setItem(key, value): JSON.stringify writes a copy
setItem(s, key, value) ==
    IF ~s.supported THEN s
    ELSE [[s EXCEPT !.has[key] = TRUE] EXCEPT ![key] = value]

\* StorageManager.removeItem(key)
removeItem(s, key) ==
    IF ~s.supported THEN s
    ELSE [[s EXCEPT !.has[key] = FALSE] EXCEPT
             ![key] = NewStorage(TRUE)[key]]

\* StorageManager.getSkins: the stored skins, or a shallow copy of
\* this.defaultSkins, whose skin objects are those of this.defaultSkins
getSkins(s) == IF HasItem(s, "skins") THEN s.skins ELSE s.defaultSkins

saveSkins(s, skins) == setItem(s, "skins", skins)

\* a write to the skin objects that getSkins returned reaches
\* this.defaultSkins when they are its objects
SkinsWritten(s, skins) ==
    IF HasItem(s, "skins") THEN s ELSE [s EXCEPT !.defaultSkins = skins]

\* StorageManager.unlockSkin(skinId): the manager after it (s) and what it
\* returns (r).  skins[skinId] is a skin, the Object function for an
\* inherited name, and undefined otherwise.
unlockSkin(s, skinId) ==
    LET skins == getSkins(s)
    IN  IF skinId \in SkinIds
        THEN IF skins[skinId].unlocked THEN [s |-> s, r |-> "null"]
             ELSE LET unlocked == [skins EXCEPT ![skinId].unlocked = TRUE]
                  IN  [s |-> saveSkins(SkinsWritten(s, unlocked), unlocked),
                       r |-> "skin"]
        ELSE IF skinId \in InheritedNames
        THEN IF s.object.unlocked THEN [s |-> s, r |-> "null"]
             ELSE [s |-> saveSkins([s EXCEPT !.object.unlocked = TRUE], skins),
                   r |-> "skin"]
        ELSE [s |-> s, r |-> "null"]

\* StorageManager.selectSkin(skinId)
selectSkin(s, skinId) ==
    LET skins == getSkins(s)
        none == [id \in SkinIds |-> [skins[id] EXCEPT !.selected = FALSE]]
    IN  IF skinId \in SkinIds
        THEN IF ~skins[skinId].unlocked THEN [s |-> s, r |-> FALSE]
             ELSE LET selected == [none EXCEPT ![skinId].selected = TRUE]
                  IN  [s |-> saveSkins(SkinsWritten(s, selected), selected),
                       r |-> TRUE]
        ELSE IF skinId \in InheritedNames
        THEN IF ~s.object.unlocked THEN [s |-> s, r |-> FALSE]
             ELSE [s |-> saveSkins([SkinsWritten(s, none) EXCEPT
                                       !.object.selected = TRUE], none),
                   r |-> TRUE]
        ELSE [s |-> s, r |-> FALSE]

\* StorageManager.getStats: the stored stats, or a shallow copy of
\* this.defaultStats, whose highScores object is that of this.defaultStats
getStats(s) == IF HasItem(s, "stats") THEN s.stats ELSE s.defaultStats

saveStats(s, stats) == setItem(s, "stats", stats)

\* StorageManager.updateHighScore(mode, score)
updateHighScore(s, m, score) ==
    LET stats == getStats(s)
    IN  IF score > stats.highScores[m]
        THEN LET raised == [stats EXCEPT !.highScores[m] = score]
                 written == IF HasItem(s, "stats") THEN s
                            ELSE [s EXCEPT !.defaultStats = raised]
             IN  [s |-> saveStats(written, raised), r |-> TRUE]
        ELSE [s |-> s, r |-> FALSE]

\* StorageManager.getAchievements, shallow as the other two
getAchievements(s) ==
    IF HasItem(s, "achievements") THEN s.achievements
    ELSE s.defaultAchievements

saveAchievements(s, achievements) == setItem(s, "achievements", achievements)

\* StorageManager.updateAchievementProgress(achievementId, progress)
updateAchievementProgress(s, id, progress) ==
    LET achievements == getAchievements(s)
        old == achievements[id]
        more == IF progress > old.progress THEN progress ELSE old.progress
        new == IF more >= Requirement
               THEN [progress |-> Requirement, unlocked |-> TRUE]
               ELSE [progress |-> more, unlocked |-> FALSE]
        updated == [achievements EXCEPT ![id] = new]
        written == IF HasItem(s, "achievements") THEN s
                   ELSE [s EXCEPT !.defaultAchievements = updated]
    IN  IF old.unlocked THEN [s |-> s, r |-> "null"]
        ELSE [s |-> saveAchievements(written, updated),
              r |-> IF new.unlocked THEN "achievement" ELSE "null"]

\* StorageManager.ensureStorageDefaults: every missing item is written from
\* the default object of the manager
ensureStorageDefaults(s) ==
    LET a == IF HasItem(s, "stats") THEN s ELSE saveStats(s, s.defaultStats)
        b == IF HasItem(a, "achievements") THEN a
             ELSE saveAchievements(a, a.defaultAchievements)
    IN  IF HasItem(b, "skins") THEN b ELSE saveSkins(b, b.defaultSkins)

\* StorageManager.init; checkStorageVersion touches the settings only
initStorage(s) == ensureStorageDefaults(s)

\* StorageManager.clearAll
clearAll(s) ==
    IF ~s.supported THEN [s |-> s, r |-> FALSE]
    ELSE LET removed == removeItem(removeItem(removeItem(s, "skins"),
                                              "stats"), "achievements")
         IN  [s |-> ensureStorageDefaults(removed), r |-> TRUE]

\* the game and the audio manager are not touched by the storage manager
StorageOnly ==
    UNCHANGED <<mode, state, snake, food, obstacles, specialFoodTimer,
                gameLoopInterval, gameTimeInterval, callbacks, now,
                foodSpawnedAt, ticks, ticked, spawning, host, audio>>

StorageInit == store' = initStorage(store) /\ StorageOnly

UnlockSkin ==
    /\ \E id \in SkinIdInputs : store' = unlockSkin(store, id).s
    /\ StorageOnly

SelectSkin ==
    /\ \E id \in SkinIdInputs : store' = selectSkin(store, id).s
    /\ StorageOnly

UpdateHighScore ==
    /\ \E m \in Modes : \E score \in 0..MaxScore :
          store' = updateHighScore(store, m, score).s
    /\ StorageOnly

UpdateAchievementProgress ==
    /\ \E id \in AchievementIds : \E progress \in 0..Requirement :
          store' = updateAchievementProgress(store, id, progress).s
    /\ StorageOnly

RemoveItem ==
    /\ \E key \in ItemKeys : store' = removeItem(store, key)
    /\ StorageOnly

ClearAll == store' = clearAll(store).s /\ StorageOnly

\* A storage manager on an empty localStorage, supported or not, beside a
\* game that is not played.
StoreInit ==
    /\ Games({"classic"})
    /\ food = [x |-> 0, y |-> 0, type |-> "normal"]
    /\ audio = NewAudio(TRUE)
    /\ \E sup \in BOOLEAN : store = NewStorage(sup)

StoreNext ==
    \/ StorageInit
    \/ UnlockSkin
    \/ SelectSkin
    \/ UpdateHighScore
    \/ UpdateAchievementProgress
    \/ RemoveItem
    \/ ClearAll

StoreSpec == StoreInit /\ [][StoreNext]_vars

\* what a caller may pass as the name of a track: a loaded one, or one that
\* is not in this.audioBuffers
TrackInputs == Tracks \cup {"unknown"}

\* what loadAudio leaves in this.audioBuffers: an AudioBuffer, or the Audio
\* element when fetching or decoding failed
BufferKinds == {"AudioBuffer", "HTMLAudioElement"}

\* this.currentMusic === null
NoMusic == [name |-> Null, loop |-> FALSE]

\* AudioManager.init with the audio files loaded as kinds says
initAudio(a, kinds) ==
    IF ~a.supported THEN a
    ELSE [a EXCEPT !.audioBuffers = kinds, !.initialized = TRUE]

\* AudioManager.stopMusic: the source is stopped, or the element paused
stopMusic(a) ==
    IF ~a.supported \/ ~a.initialized THEN a
    ELSE IF a.currentMusic.name = Null THEN a
    ELSE [a EXCEPT !.sounding[a.currentMusic.name] =
                       IF a.audioBuffers[a.currentMusic.name] = "AudioBuffer"
                          /\ @ > 0
                       THEN @ - 1
                       ELSE 0,
                   !.currentMusic = NoMusic]

\* AudioManager.playMusic(name, {loop})
playMusic(a, name, loop) ==
    IF ~a.supported \/ ~a.initialized \/ ~a.musicEnabled THEN a
    ELSE LET stopped == stopMusic(a)
         IN  IF name \notin Tracks THEN stopped
             ELSE [stopped EXCEPT
                      !.sounding[name] =
                          IF stopped.audioBuffers[name] = "AudioBuffer"
                          THEN @ + 1
                          ELSE 1,
                      !.currentMusic = [name |-> name, loop |-> loop]]

\* AudioManager.enableMusic(enabled)
enableMusic(a, enabled) ==
    IF ~a.supported THEN a
    ELSE LET set == [a EXCEPT !.musicEnabled = enabled]
         IN  IF ~enabled THEN stopMusic(set)
             ELSE IF set.currentMusic.name # Null
             THEN playMusic(set, set.currentMusic.name, TRUE)
             ELSE set

\* the game and the storage manager are not touched by the audio manager
AudioOnly ==
    UNCHANGED <<mode, state, snake, food, obstacles, specialFoodTimer,
                gameLoopInterval, gameTimeInterval, callbacks, now,
                foodSpawnedAt, ticks, ticked, spawning, host, store>>

AudioLoaded ==
    /\ ~audio.initialized
    /\ \E kinds \in [Tracks -> BufferKinds] : audio' = initAudio(audio, kinds)
    /\ AudioOnly

PlayMusic ==
    /\ \E name \in TrackInputs : \E loop \in BOOLEAN :
          audio' = playMusic(audio, name, loop)
    /\ AudioOnly

StopMusic == audio' = stopMusic(audio) /\ AudioOnly

EnableMusic ==
    /\ \E enabled \in BOOLEAN : audio' = enableMusic(audio, enabled)
    /\ AudioOnly

\* a track that does not loop comes to its end
MusicEnded ==
    /\ audio.currentMusic.name # Null
    /\ ~audio.currentMusic.loop
    /\ audio.sounding[audio.currentMusic.name] > 0
    /\ audio' = [audio EXCEPT !.sounding[audio.currentMusic.name] = @ - 1]
    /\ AudioOnly

\* An audio manager, Web Audio supported or not, beside a game that is not
\* played.
AudioInit ==
    /\ Games({"classic"})
    /\ food = [x |-> 0, y |-> 0, type |-> "normal"]
    /\ store = NewStorage(TRUE)
    /\ \E sup \in BOOLEAN : audio = NewAudio(sup)

AudioNext ==
    \/ AudioLoaded
    \/ PlayMusic
    \/ StopMusic
    \/ EnableMusic
    \/ MusicEnded

AudioSpec == AudioInit /\ [][AudioNext]_vars

\* ------------------------------------------------------------------- claims
\* The outcomes of the next simulation tick, if the simulation timer is
\* scheduled; of no tick otherwise.
TickOutcomes == IF gameLoopInterval.pending THEN gameLoop(World, now) ELSE {}

InGrid(c) == c.x >= 0 /\ c.x < Width /\ c.y >= 0 /\ c.y < Height

HitsSelf(body) == \E i \in 2..Len(body) : body[i] = body[1]

HitsObstacle(body, obs) == \E i \in 1..Len(obs) : obs[i] = body[1]

\* food was eaten in the tick that leads from the current state to w
Ate(w) == w.state.foodEaten = state.foodEaten + 1

\* C1: a simulation tick ends the game if and only if, after the move, (a)
\* wallPass is inactive and the head is outside the grid, or (b) invincible
\* is inactive and the head is on a body cell of index >= 1, or (c) the mode
\* is obstacle, invincible is inactive and the head is on an obstacle; with
\* invincible active a self or obstacle collision does not end the game, and
\* with wallPass active the head is never outside the grid.  The power-up is
\* the one active when the tick starts.
C1_GameOverIffCollision ==
    \A w \in TickOutcomes :
        LET body == w.snake.body
            wall == ~WallPassActive(state) /\ ~InGrid(body[1])
            self == ~InvincibleActive(state) /\ HitsSelf(body)
            obst == /\ mode = "obstacle"
                    /\ ~InvincibleActive(state)
                    /\ HitsObstacle(body, obstacles)
        IN  /\ ~state.gameOver
            /\ w.state.gameOver <=> (wall \/ self \/ obst)
            /\ w.state.gameOver => ~w.state.running
            /\ InvincibleActive(state) /\ InGrid(body[1]) => ~w.state.gameOver
            /\ WallPassActive(state) => InGrid(body[1])

\* a tick ran the head into an obstacle and the game is over
C1_Witness ==
    /\ ticks > 0
    /\ state.gameOver
    /\ mode = "obstacle"
    /\ ~state.powerUpActive
    /\ HitsObstacle(snake.body, obstacles)

\* C2 as stated: the length after a tick is the length before it, plus one
\* if food is eaten in that same tick.
C2_GrowsInEatingTick ==
    \A w \in TickOutcomes :
        Len(w.snake.body) = Len(snake.body) + (IF Ate(w) THEN 1 ELSE 0)

\* C2, amended: the length after a tick is the length before it, plus one
\* exactly if the growing flag was set before the tick; a tick in which food
\* is eaten sets the flag, so the snake grows in the tick that follows.
C2_GrowsInNextTick ==
    \A w \in TickOutcomes :
        /\ Len(w.snake.body) =
               Len(snake.body) + (IF snake.growing THEN 1 ELSE 0)
        /\ Ate(w) => w.snake.growing
        /\ ~Ate(w) => ~w.snake.growing

\* the tick after the first food has grown the snake by one
C2_Witness ==
    /\ ticks = 2
    /\ state.foodEaten = 1
    /\ ~snake.growing
    /\ Len(snake.body) = InitialSnakeLength + 1

\* C3: nextDirection is never the opposite of direction, and no tick commits
\* the opposite of the direction committed before it.
C3_NoReversal ==
    /\ snake.direction \in Directions
    /\ snake.nextDirection \in Directions
    /\ snake.nextDirection # Opposite(snake.direction)
    /\ \A w \in TickOutcomes :
           w.snake.direction # Opposite(snake.direction)

\* after a turn upwards was committed, a turn to the left is buffered
C3_Witness ==
    /\ ticks > 0
    /\ snake.direction = "up"
    /\ snake.nextDirection = "left"

\* C4: changeDirection(d) sets nextDirection to d, and nothing else, exactly
\* when d is a cardinal direction other than the opposite of the committed
\* direction; any other d changes nothing; the next tick commits the buffered
\* direction, that of the last accepted call.
C4_ChangeDirection ==
    /\ \A d \in DirectionInputs :
           LET accepted == d \in Directions /\ d # Opposite(snake.direction)
               w == changeDirection(World, d)
           IN  /\ accepted => w = [World EXCEPT !.snake.nextDirection = d]
               /\ ~accepted => w = World
    /\ \A w \in TickOutcomes : w.snake.direction = snake.nextDirection

\* a tick has committed a turn downwards, on a board where that is no wall
C4_Witness ==
    /\ ticks > 0
    /\ snake.direction = "down"
    /\ snake.nextDirection = "down"
    /\ state.running

\* C10 as stated: a tick that detects a collision leaves score, foodEaten,
\* specialFoodEaten, food, obstacles, the growing flag and the power-up state
\* as they were.
C10_CollisionChangesNothing ==
    \A w \in TickOutcomes :
        w.state.gameOver =>
            /\ w.state.score = state.score
            /\ w.state.foodEaten = state.foodEaten
            /\ w.state.specialFoodEaten = state.specialFoodEaten
            /\ w.food = food
            /\ w.obstacles = obstacles
            /\ w.snake.growing = snake.growing
            /\ w.state.powerUpActive = state.powerUpActive
            /\ w.state.powerUpType = state.powerUpType
            /\ w.state.powerUpEndTime = state.powerUpEndTime

\* C10, amended: a tick that detects a collision ends the game and leaves
\* score, foodEaten, specialFoodEaten, food, obstacles and the power-up state
\* as they were; the growing flag is false after it (the move consumes it
\* before the collision check).
C10_CollisionStopsTick ==
    \A w \in TickOutcomes :
        w.state.gameOver =>
            /\ ~w.state.running
            /\ w.state.score = state.score
            /\ w.state.foodEaten = state.foodEaten
            /\ w.state.specialFoodEaten = state.specialFoodEaten
            /\ w.food = food
            /\ w.obstacles = obstacles
            /\ ~w.snake.growing
            /\ w.state.powerUpActive = state.powerUpActive
            /\ w.state.powerUpType = state.powerUpType
            /\ w.state.powerUpEndTime = state.powerUpEndTime
            /\ ~w.gameLoopInterval.pending
            /\ ~w.gameTimeInterval.pending

\* a tick right after a meal has run the grown snake into the wall
C10_Witness ==
    /\ state.gameOver
    /\ state.score > 0
    /\ ~InGrid(snake.body[1])
    /\ Len(snake.body) = InitialSnakeLength + state.foodEaten

SpeedBoostActive(st) == st.powerUpActive /\ st.powerUpType = "speedBoost"

\* minInterval, in tenths of a millisecond
Floor == MaxSpeed * IntervalScale

\* values of foodEaten up to where the ramp is below the floor with and
\* without the boost
FoodCounts == 0..((Speed \div SpeedIncrease) + 2)

\* the run state with other counters and another power-up
StateWith(k, active, type) ==
    [state EXCEPT !.foodEaten = k, !.powerUpActive = active,
                  !.powerUpType = type]

\* C5: the computed interval is max(minInterval, baseInterval - foodEaten *
\* speedIncrement) without an active speedBoost and max(minInterval, 0.7 *
\* (baseInterval - foodEaten * speedIncrement)) with one, and is never below
\* minInterval: in the current state, and for every foodEaten and power-up.
C5_SpeedFormula ==
    /\ \A k \in FoodCounts \cup {state.foodEaten} :
       \A active \in BOOLEAN :
       \A type \in SeqRange(PowerUps) \cup {Null} :
           LET st == StateWith(k, active, type)
               ramp == Speed - (k * SpeedIncrease)
           IN  /\ getCurrentSpeed(st) >= Floor
               /\ active /\ type = "speedBoost" =>
                      getCurrentSpeed(st) = Max(Floor, BoostFactor * ramp)
               /\ ~(active /\ type = "speedBoost") =>
                      getCurrentSpeed(st) = Max(Floor, IntervalScale * ramp)
    /\ state.foodEaten >= 0
    /\ gameLoopInterval.pending => gameLoopInterval.at >= Floor

\* with the boost, the second food brings the interval down to the floor
C5_Witness ==
    /\ SpeedBoostActive(state)
    /\ state.foodEaten = 2
    /\ BoostFactor * (Speed - (2 * SpeedIncrease)) < Floor
    /\ gameLoopInterval.pending
    /\ gameLoopInterval.at = Floor

\* C6 as stated: after every tick in which food is eaten the interval is
\* strictly smaller than before the tick, or is the floor.
C6_EatingNeverSlows ==
    \A w \in TickOutcomes :
        Ate(w) =>
            \/ getCurrentSpeed(w.state) < getCurrentSpeed(state)
            \/ getCurrentSpeed(w.state) = Floor

\* C6, amended: after every tick in which food is eaten the interval of the
\* speed formula is strictly smaller than before the tick or is the floor,
\* unless a speedBoost active before the tick is not active after it (another
\* power-up replaced it, or it expired in that tick); with the power-up
\* fixed, the interval does not increase as foodEaten grows.
C6_EatingSpeedsUp ==
    /\ \A w \in TickOutcomes :
           Ate(w) /\ (SpeedBoostActive(state) => SpeedBoostActive(w.state)) =>
               \/ getCurrentSpeed(w.state) < getCurrentSpeed(state)
               \/ getCurrentSpeed(w.state) = Floor
    /\ \A k \in FoodCounts : \A active \in BOOLEAN :
           getCurrentSpeed(StateWith(k + 1, active, "speedBoost"))
               <= getCurrentSpeed(StateWith(k, active, "speedBoost"))

\* the first food has shortened the period of the simulation timer
C6_Witness ==
    /\ state.foodEaten = 1
    /\ ~state.powerUpActive
    /\ gameLoopInterval.pending
    /\ gameLoopInterval.at = IntervalScale * (Speed - SpeedIncrease)
    /\ gameLoopInterval.at < IntervalScale * Speed

\* C7: whenever the simulation timer is scheduled, its period is the speed
\* formula on the current foodEaten and power-up state.
C7_TimerNeverStale ==
    gameLoopInterval.pending => gameLoopInterval.at = getCurrentSpeed(state)

\* C8: no special food is on the board later than specialFoodDuration after
\* it was spawned.
C8_SpecialFoodNeverOverdue ==
    food.type = "special" => now <= foodSpawnedAt + SpecialFoodDuration

\* C9: when the special-food timer fires on the special food it was armed
\* for, the food that replaces it is normal.
C9_ExpiryGivesNormalFood ==
    specialFoodTimer.pending /\ specialFoodTimer.at <= now
        /\ food.type = "special" =>
            \A w \in specialFoodExpire(World, now) : w.food.type = "normal"

\* The outcome of the next wall-clock tick, if the wall-clock timer is
\* scheduled.
TimeTickOutcomes ==
    IF gameTimeInterval.pending THEN {gameTimeTick(World, now)} ELSE {}

NoTimerPending(w) ==
    /\ ~w.gameLoopInterval.pending
    /\ ~w.gameTimeInterval.pending
    /\ ~w.specialFoodTimer.pending

\* the invocations of the handler of event among those of w
Notices(w, event) == SelectSeq(w.emitted, LAMBDA n : n.event = event)

\* C11: in timeAttack mode a new engine has elapsedSeconds 0, and every
\* wall-clock tick of a game whose elapsedSeconds is still below timeLimit
\* adds one second and ends the game exactly if that brings elapsedSeconds to
\* timeLimit: then elapsedSeconds = timeLimit in the state and in the
\* onGameOver payload and no timer stays scheduled; otherwise the game goes on.
C11_TimeLimitEndsGame ==
    /\ \A w \in init(Constructed("timeAttack"), 0) : w.state.time = 0
    /\ \A w \in TimeTickOutcomes :
           mode = "timeAttack" /\ state.time < TimeLimit =>
               /\ w.state.time = state.time + 1
               /\ w.state.gameOver <=> (state.time + 1 = TimeLimit)
               /\ w.state.gameOver =>
                      /\ ~w.state.running
                      /\ w.state.time = TimeLimit
                      /\ NoTimerPending(w)
                      /\ callbacks["onGameOver"] # Null =>
                             /\ Len(Notices(w, "onGameOver")) = 1
                             /\ Notices(w, "onGameOver")[1].payload.time
                                    = TimeLimit
               /\ ~w.state.gameOver =>
                      /\ w.state.running
                      /\ w.gameLoopInterval = gameLoopInterval
                      /\ w.gameTimeInterval.pending
                      /\ Notices(w, "onGameOver") = <<>>

\* a timeAttack game that the time limit ended, its handler registered
C11_Witness ==
    /\ mode = "timeAttack"
    /\ state.gameOver
    /\ state.time = TimeLimit
    /\ InGrid(snake.body[1])
    /\ callbacks["onGameOver"] # Null
    /\ NoTimerPending(World)

NoTimerSet(w) ==
    /\ ~w.gameLoopInterval.set
    /\ ~w.gameTimeInterval.set
    /\ ~w.specialFoodTimer.set

\* C12: reset() in any state leaves the snake at initialSnakeLength, score 0,
\* gameOver and running false and no simulation, wall-clock or special-food
\* timer scheduled (none that was pending before, none new), so the engine
\* is not started.
C12_ResetStopsEverything ==
    \A w \in reset(World, now) :
        /\ Len(w.snake.body) = InitialSnakeLength
        /\ w.state.score = 0
        /\ ~w.state.gameOver
        /\ ~w.state.running
        /\ NoTimerPending(w)
        /\ NoTimerSet(w)

\* reset() has been called after a meal: the growing flag of the last game
\* is still set in the engine that was reset
C12_Witness ==
    /\ ticks = 0
    /\ snake.growing
    /\ ~state.running
    /\ ~state.gameOver
    /\ state.score = 0
    /\ Len(snake.body) = InitialSnakeLength
    /\ NoTimerPending(World)

\* C13: after reset() the engine is as after construction: direction and
\* nextDirection right, growing false, all counters zero, no power-up; so
\* the first tick after reset() and start() that eats nothing leaves the
\* length at initialSnakeLength.
C13_ResetIsFresh ==
    \A w \in reset(World, now) :
        /\ w.snake.direction = "right"
        /\ w.snake.nextDirection = "right"
        /\ ~w.snake.growing
        /\ w.state = FreshState
        /\ \A x \in gameLoop(start(w, now), now) :
               x.state.foodEaten = 0 =>
                   Len(x.snake.body) = InitialSnakeLength

\* C14: a new engine is not running and has no timer; start() on a running
\* engine changes nothing; start() on an engine that is not running sets
\* running, clears paused and gameOver, schedules the simulation timer with
\* the period of the speed formula and the wall-clock timer one second
\* ahead, replaces no timer that is still pending, and changes nothing else.
C14_StartOnce ==
    /\ \A w \in init(Constructed(mode), 0) :
           ~w.state.running /\ NoTimerPending(w) /\ NoTimerSet(w)
    /\ state.running => start(World, now) = World
    /\ ~state.running =>
           /\ ~gameLoopInterval.pending
           /\ ~gameTimeInterval.pending
           /\ start(World, now) =
                  [World EXCEPT
                     !.state.running = TRUE,
                     !.state.paused = FALSE,
                     !.state.gameOver = FALSE,
                     !.gameLoopInterval = Timer(getCurrentSpeed(state)),
                     !.gameTimeInterval = Timer(now + SecondMs)]

\* start() has run on an engine whose last game ended at the wall: the game
\* runs again, from where the last one ended
C14_Witness ==
    /\ state.running
    /\ ~state.paused
    /\ ~state.gameOver
    /\ ~InGrid(snake.body[1])
    /\ gameLoopInterval.pending
    /\ gameLoopInterval.at = getCurrentSpeed(state)
    /\ gameTimeInterval.pending

\* The outcomes of the special-food timeout, if it is pending.
ExpiryOutcomes ==
    IF specialFoodTimer.pending THEN specialFoodExpire(World, now) ELSE {}

\* C15: pause() changes state only when running and not paused (it sets
\* paused and cancels the simulation and the wall-clock timer), resume() only
\* when running and paused (it clears paused and schedules the simulation
\* timer with the period of the speed formula on the state of that moment and
\* the wall-clock timer a full second ahead, running no tick); while paused
\* neither timer is scheduled, and nothing that can run changes the snake
\* body, score, foodEaten or elapsedSeconds.
C15_PauseResume ==
    /\ pause(World) =
           IF state.running /\ ~state.paused
           THEN [World EXCEPT !.state.paused = TRUE,
                              !.gameLoopInterval = NoTimer,
                              !.gameTimeInterval = NoTimer]
           ELSE World
    /\ resume(World, now) =
           IF state.running /\ state.paused
           THEN [World EXCEPT
                    !.state.paused = FALSE,
                    !.gameLoopInterval = Timer(getCurrentSpeed(state)),
                    !.gameTimeInterval = Timer(now + SecondMs)]
           ELSE World
    /\ state.running /\ state.paused =>
           /\ ~gameLoopInterval.pending
           /\ ~gameTimeInterval.pending
           /\ TickOutcomes = {}
           /\ TimeTickOutcomes = {}
           /\ \A w \in ExpiryOutcomes
                     \cup {changeDirection(World, d) : d \in DirectionInputs} :
                  /\ w.snake.body = snake.body
                  /\ w.state = state

\* resume() has run after a pause that outlasted a second, and a meal: the
\* second is not made up for, and the period is the shortened one
C15_Witness ==
    /\ state.running
    /\ ~state.paused
    /\ state.foodEaten > 0
    /\ gameLoopInterval.pending
    /\ gameLoopInterval.at = getCurrentSpeed(state)
    /\ gameLoopInterval.at < Speed * IntervalScale
    /\ gameTimeInterval.pending
    /\ gameTimeInterval.at = now + SecondMs
    /\ state.time * SecondMs < now

\* C16: after pause(), reset() or destroy() no timer is pending, the
\* special-food timeout included; while the engine is paused no callback
\* changes the food.
C16_NothingPendingAfterCancel ==
    /\ state.running /\ ~state.paused => NoTimerPending(pause(World))
    /\ \A w \in reset(World, now) : NoTimerPending(w)
    /\ NoTimerPending(destroy(World))
    /\ state.running /\ state.paused =>
           /\ ~specialFoodTimer.pending
           /\ \A w \in ExpiryOutcomes : w.food = food

\* what the host can call at time t, endGame() and reset() apart, and what
\* comes of it
CallOutcomes(w, t) ==
    {start(w, t), pause(w), resume(w, t)}
        \cup {changeDirection(w, d) : d \in DirectionInputs}

\* the head of a snake that has moved is where checkCollision ends the game
Collided(w) ==
    \/ ~WallPassActive(w.state) /\ ~InGrid(w.snake.body[1])
    \/ ~InvincibleActive(w.state) /\ HitsSelf(w.snake.body)
    \/ /\ w.mode = "obstacle"
       /\ ~InvincibleActive(w.state)
       /\ HitsObstacle(w.snake.body, w.obstacles)

\* C19: without a call of endGame(), a running engine becomes GameOver only
\* by a simulation tick that finds a collision or, in timeAttack mode, by the
\* wall-clock tick that finds elapsedSeconds >= timeLimit; in classic and
\* obstacle mode no wall-clock tick ends the game; no other call or callback
\* sets gameOver, and a paused engine has no timer that could.
C19_OnlyCollisionOrTimeLimit ==
    /\ \A w \in TickOutcomes : w.state.gameOver => Collided(w)
    /\ \A w \in TimeTickOutcomes :
           w.state.gameOver =>
               /\ mode = "timeAttack"
               /\ w.state.time >= TimeLimit
    /\ \A m \in {"classic", "obstacle"} :
           gameTimeInterval.pending =>
               ~gameTimeTick([World EXCEPT !.mode = m], now).state.gameOver
    /\ \A w \in CallOutcomes(World, now) \cup ExpiryOutcomes :
           w.state.gameOver => state.gameOver
    /\ state.running /\ state.paused =>
           TickOutcomes = {} /\ TimeTickOutcomes = {}
    /\ state.gameOver => ~state.running

\* a classic game runs on with the time limit behind it
C19_Witness ==
    /\ mode = "classic"
    /\ state.running
    /\ ~state.gameOver
    /\ state.time >= TimeLimit
    /\ gameTimeInterval.pending

\* C20: a tick that eats adds 1 to the score for a normal food and 5 for a
\* special one, 1 to foodEaten and, for a special food only, 1 to
\* specialFoodEaten; no other tick, call or callback changes the three
\* counters, and reset() sets them to 0; so score = foodEaten + 4 *
\* specialFoodEaten and specialFoodEaten <= foodEaten in every state.
C20_ScoreCounts ==
    /\ \A w \in TickOutcomes :
           LET special == food.type = "special"
               ate == w.snake.body[1] = [x |-> food.x, y |-> food.y]
                          /\ ~w.state.gameOver
           IN  /\ ate =>
                      /\ w.state.score = state.score
                             + (IF special THEN SpecialScore ELSE NormalScore)
                      /\ w.state.foodEaten = state.foodEaten + 1
                      /\ w.state.specialFoodEaten = state.specialFoodEaten
                             + (IF special THEN 1 ELSE 0)
               /\ ~ate =>
                      /\ w.state.score = state.score
                      /\ w.state.foodEaten = state.foodEaten
                      /\ w.state.specialFoodEaten = state.specialFoodEaten
    /\ \A w \in CallOutcomes(World, now) \cup {endGame(World)}
                  \cup TimeTickOutcomes \cup ExpiryOutcomes :
           /\ w.state.score = state.score
           /\ w.state.foodEaten = state.foodEaten
           /\ w.state.specialFoodEaten = state.specialFoodEaten
    /\ \A w \in reset(World, now) :
           /\ w.state.score = 0
           /\ w.state.foodEaten = 0
           /\ w.state.specialFoodEaten = 0
    /\ state.score = (NormalScore * state.foodEaten)
                         + ((SpecialScore - NormalScore)
                                * state.specialFoodEaten)
    /\ state.specialFoodEaten <= state.foodEaten

\* a normal and a special food have been eaten
C20_Witness ==
    /\ state.foodEaten = 2
    /\ state.specialFoodEaten = 1
    /\ state.score = NormalScore + SpecialScore

\* the timer callbacks that can run in w at time t, and what comes of them
TimerOutcomes(w, t) ==
    (IF w.gameLoopInterval.pending THEN gameLoop(w, t) ELSE {})
        \cup (IF w.gameTimeInterval.pending THEN {gameTimeTick(w, t)} ELSE {})
        \cup (IF w.specialFoodTimer.pending THEN specialFoodExpire(w, t)
              ELSE {})

\* what onGameOver is called with when the game of w ends
Summary(w) ==
    [score |-> w.state.score, time |-> w.state.time,
     foodEaten |-> w.state.foodEaten,
     specialFoodEaten |-> w.state.specialFoodEaten, mode |-> w.mode]

\* C17: endGame() on an engine that is not running changes and emits nothing;
\* on a running engine it sets running false and gameOver true, cancels the
\* three timers, changes nothing else and calls the onGameOver handler, if
\* there is one, exactly once, with score, elapsed seconds, foodEaten,
\* specialFoodEaten and mode; a timer callback calls onGameOver at most once
\* and then leaves the engine not running, and on an engine that is not
\* running no timer callback can run and no call but start() emits anything:
\* at most one onGameOver between two start() calls.
C17_EndGameOnce ==
    /\ ~state.running => endGame(World) = World
    /\ state.running =>
           LET ended == [clearTimers(World) EXCEPT !.state.running = FALSE,
                                                   !.state.gameOver = TRUE]
           IN  endGame(World) =
                   [ended EXCEPT !.emitted =
                       IF callbacks["onGameOver"] # Null
                       THEN <<[event |-> "onGameOver",
                               payload |-> Summary(World)]>>
                       ELSE <<>>]
    /\ \A w \in TimerOutcomes(World, now) :
           /\ Len(Notices(w, "onGameOver")) <= 1
           /\ Len(Notices(w, "onGameOver")) = 1 =>
                  /\ callbacks["onGameOver"] # Null
                  /\ ~w.state.running
                  /\ w.state.gameOver
                  /\ Notices(w, "onGameOver")[1].payload = Summary(w)
           /\ w.state.gameOver /\ ~state.gameOver
                  /\ callbacks["onGameOver"] # Null =>
                  Len(Notices(w, "onGameOver")) = 1
    /\ ~state.running =>
           /\ ~gameLoopInterval.pending /\ ~gameTimeInterval.pending
           /\ \A w \in {pause(World), resume(World, now), endGame(World)}
                         \cup ExpiryOutcomes :
                  Notices(w, "onGameOver") = <<>>

\* a collision has ended a game that had scored, with the handler registered
C17_Witness ==
    /\ state.gameOver
    /\ ~state.running
    /\ callbacks["onGameOver"] # Null
    /\ state.score > 0
    /\ ~InGrid(snake.body[1])
    /\ NoTimerPending(World)

\* what can happen at time t in one of the engines ws: a call other than
\* on(), or a timer callback
Later(ws, t) ==
    UNION { CallOutcomes(w, t) \cup {endGame(w), destroy(w)}
                \cup TimerOutcomes(w, t) : w \in ws }

\* C18: destroy() leaves no timer scheduled and no handler registered, and
\* whatever is called or fires afterwards (resume() and start() schedule
\* timers again, whose callbacks run) invokes no handler and registers none,
\* as long as on() is not called.
C18_SilentAfterDestroy ==
    /\ NoTimerPending(destroy(World))
    /\ NoTimerSet(destroy(World))
    /\ destroy(World).callbacks = NoCallbacks
    /\ LET once == Later({destroy(World)}, now)
       IN  \A w \in once \cup Later(once, now) :
               /\ w.emitted = <<>>
               /\ w.callbacks = NoCallbacks
    /\ callbacks = NoCallbacks =>
           \A w \in Later({World}, now) \cup reset(World, now) :
               /\ w.emitted = <<>>
               /\ w.callbacks = NoCallbacks

\* destroy() has been called in the middle of a game whose handlers were
\* registered: the engine still counts as running, with nothing scheduled
C18_Witness ==
    /\ callbacks = NoCallbacks
    /\ state.running
    /\ ~state.paused
    /\ ticks > 0
    /\ NoTimerPending(World)
    /\ NoTimerSet(World)

\* the food of w is on a grid cell that no snake cell and no obstacle is on
FoodIsFree(w) ==
    /\ InGrid(w.food)
    /\ ~UtilsCheckCollisionWithArray(w.food, w.snake.body, FALSE)
    /\ ~UtilsCheckCollisionWithArray(w.food, w.obstacles, FALSE)

\* the obstacle of index k of w is on a grid cell that no snake cell, not the
\* food and no other obstacle is on
ObstacleIsFree(w, k) ==
    /\ InGrid(w.obstacles[k])
    /\ ~UtilsCheckCollisionWithArray(w.obstacles[k], w.snake.body, FALSE)
    /\ ~UtilsCheckCollision(w.obstacles[k], w.food)
    /\ \A i \in 1..Len(w.obstacles) :
           i # k => ~UtilsCheckCollision(w.obstacles[k], w.obstacles[i])

\* C21: every food spawn (construction, reset, after eating, special-food
\* expiry) puts the food on a grid cell that no snake cell and no obstacle is
\* on, and every obstacle spawn picks a grid cell that no snake cell, not the
\* food and no other obstacle is on; so in every reachable state the food is
\* on no obstacle and the obstacles are pairwise distinct.
C21_SpawnsOnFreeCells ==
    /\ \A w \in spawnFood(World, now) : FoodIsFree(w)
    /\ \A w \in spawnObstacle(World) : ObstacleIsFree(w, Len(w.obstacles))
    /\ \A w \in reset(World, now) :
           /\ FoodIsFree(w)
           /\ \A k \in 1..Len(w.obstacles) : ObstacleIsFree(w, k)
    /\ \A w \in TickOutcomes :
           /\ Ate(w) => FoodIsFree(w)
           /\ Len(w.obstacles) > Len(obstacles) =>
                  ObstacleIsFree(w, Len(w.obstacles))
    /\ \A w \in ExpiryOutcomes : FoodIsFree(w)
    /\ InGrid(food)
    /\ ~UtilsCheckCollisionWithArray(food, obstacles, FALSE)
    /\ \A i, j \in 1..Len(obstacles) :
           i # j => ~UtilsCheckCollision(obstacles[i], obstacles[j])
    /\ ticks = 0 /\ ~state.gameOver =>
           /\ FoodIsFree(World)
           /\ \A k \in 1..Len(obstacles) : ObstacleIsFree(World, k)

\* in obstacle mode the snake has eaten a food, the tick has spawned the next
\* food and one obstacle more than the construction made
C21_Witness ==
    /\ mode = "obstacle"
    /\ state.foodEaten = 1
    /\ Len(obstacles) = ObstacleCount + 1
    /\ FoodIsFree(World)
    /\ ObstacleIsFree(World, Len(obstacles))

\* the obstacles of w are those of the current state, in their order, and
\* at most one more
AtMostOneMore(w) ==
    \/ w.obstacles = obstacles
    \/ /\ Len(w.obstacles) = Len(obstacles) + 1
       /\ SubSeq(w.obstacles, 1, Len(obstacles)) = obstacles

\* C26: start, pause, resume, changeDirection, endGame, the wall-clock tick,
\* the special-food expiry and a simulation tick in which no food is eaten
\* leave the obstacles as they are; a tick in which food is eaten adds at
\* most one obstacle and removes none in obstacle mode, and changes nothing
\* in the other modes.
C26_ObstaclesStatic ==
    /\ \A w \in CallOutcomes(World, now) \cup {endGame(World)}
                    \cup TimeTickOutcomes \cup ExpiryOutcomes :
           w.obstacles = obstacles
    /\ \A w \in TickOutcomes :
           IF Ate(w) /\ mode = "obstacle"
           THEN AtMostOneMore(w)
           ELSE w.obstacles = obstacles

\* a tick in obstacle mode has just eaten (the snake has still to grow) and
\* has left one obstacle more on the board, after those it had
C26_Witness ==
    /\ mode = "obstacle"
    /\ snake.growing
    /\ Len(obstacles) = ObstacleCount + 1
    /\ state.running

\* a handler other than the one the host of HostSpec registers
OtherHandlers == {"replacement"}

\* w with no handler registered and none invoked
Silent(w) == [w EXCEPT !.callbacks = NoCallbacks, !.emitted = <<>>]

\* C25: on(event, handler) with one of the seven event names replaces the
\* handler of that event and leaves the other six as they are; with any other
\* name it changes nothing; an event that has no handler is skipped, and the
\* state change that would have triggered it is the same as with a handler.
C25_OnReplacesOneHandler ==
    /\ \A e \in EventInputs : \A h \in Handlers \cup OtherHandlers \cup {Null} :
           LET w == on(World, e, h)
           IN  IF e \in Events
               THEN /\ w.callbacks[e] = h
                    /\ \A x \in Events \ {e} : w.callbacks[x] = callbacks[x]
                    /\ w = [World EXCEPT !.callbacks[e] = h]
               ELSE w = World
    /\ \A w \in Later({World}, now) :
           \A i \in 1..Len(w.emitted) : callbacks[w.emitted[i].event] # Null
    /\ {Silent(w) : w \in TickOutcomes} =
           IF gameLoopInterval.pending THEN gameLoop(Silent(World), now)
                                       ELSE {}
    /\ Silent(gameTimeTick(World, now)) = gameTimeTick(Silent(World), now)
    /\ Silent(endGame(World)) = endGame(Silent(World))
    /\ {Silent(w) : w \in specialFoodExpire(World, now)} =
           specialFoodExpire(Silent(World), now)

\* the snake has eaten while a handler was registered for onFoodEaten and
\* none for onScoreChange: the score has changed all the same
C25_Witness ==
    /\ callbacks["onFoodEaten"] # Null
    /\ callbacks["onScoreChange"] = Null
    /\ state.score > 0
    /\ state.foodEaten > 0

\* C29: in every reachable state the simulation timer and the wall-clock
\* timer are both scheduled or both unscheduled; each is scheduled through
\* the one handle the engine keeps (a handle is assigned only where none is
\* scheduled, so no second instance exists); both are scheduled only while
\* the engine is running and not paused; and the special-food timeout is
\* pending only while the engine is running and the food is special.
C29_TimersPaired ==
    /\ gameLoopInterval.pending = gameTimeInterval.pending
    /\ gameLoopInterval.set = gameLoopInterval.pending
    /\ gameTimeInterval.set = gameTimeInterval.pending
    /\ specialFoodTimer.pending => specialFoodTimer.set
    /\ gameLoopInterval.pending => state.running /\ ~state.paused
    /\ specialFoodTimer.pending => state.running /\ food.type = "special"
    /\ \A w \in {start(World, now), resume(World, now)} :
           w.gameLoopInterval # gameLoopInterval
               \/ w.gameTimeInterval # gameTimeInterval =>
                   ~gameLoopInterval.pending /\ ~gameTimeInterval.pending

\* the engine is paused in a game whose food is special: the two periodic
\* timers are not scheduled, the special-food timeout still is
C29_Witness ==
    /\ state.running
    /\ state.paused
    /\ ticks > 0
    /\ food.type = "special"
    /\ specialFoodTimer.pending
    /\ ~gameLoopInterval.pending
    /\ ~gameTimeInterval.pending

\* a special food was eaten in the tick that leads from the current state
\* to w
AteSpecial(w) == w.state.specialFoodEaten = state.specialFoodEaten + 1

\* the power-up of the current state has expired in w, and the handler of
\* onPowerUpEnd, if there is one, was told once, with its kind
PowerUpEnded(w) ==
    /\ ~w.state.powerUpActive
    /\ w.state.powerUpType = Null
    /\ Notices(w, "onPowerUpEnd") =
           IF callbacks["onPowerUpEnd"] # Null
           THEN << [event |-> "onPowerUpEnd",
                    payload |-> [type |-> state.powerUpType]] >>
           ELSE << >>

\* the power-up of the current state is the power-up of w
PowerUpKept(w) ==
    /\ w.state.powerUpActive = state.powerUpActive
    /\ w.state.powerUpType = state.powerUpType
    /\ w.state.powerUpEndTime = state.powerUpEndTime
    /\ Notices(w, "onPowerUpEnd") = << >>

\* the engine holds one power-up slot, and a tick that eats special food
\* fills it with one of the three kinds, to end PowerUpDuration later
PowerUpSlot ==
    /\ state.powerUpActive <=> state.powerUpType # Null
    /\ state.powerUpActive =>
           \E k \in 1..Len(PowerUps) : state.powerUpType = PowerUps[k]
    /\ \A w \in TickOutcomes :
           AteSpecial(w) =>
               /\ w.state.powerUpActive
               /\ \E k \in 1..Len(PowerUps) : w.state.powerUpType = PowerUps[k]
               /\ w.state.powerUpEndTime = now + PowerUpDuration
               /\ Notices(w, "onPowerUpEnd") = << >>
    /\ \A w \in CallOutcomes(World, now) \cup {endGame(World)}
                    \cup TimeTickOutcomes \cup ExpiryOutcomes :
           PowerUpKept(w)

\* C23 as claimed: at most one power-up is active; eating special food
\* activates one of speedBoost, invincible, wallPass with expiresAt = now +
\* 5000 ms in place of any other; the first collision-free tick that
\* completes at or after expiresAt clears the active power-up with exactly
\* one onPowerUpEnd carrying its kind, and no tick does before expiresAt.
C23_ExpiredPowerUpEnds ==
    /\ PowerUpSlot
    /\ \A w \in TickOutcomes :
           state.powerUpActive /\ ~w.state.gameOver =>
               IF now >= state.powerUpEndTime THEN PowerUpEnded(w)
               ELSE AteSpecial(w) \/ PowerUpKept(w)

\* C27 as claimed: in every reachable state in which the engine is running
\* and no invincible power-up is active, the head is on no other body cell
\* and, in obstacle mode, on no obstacle.
C27_HeadApart ==
    state.running /\ ~InvincibleActive(state) =>
        /\ ~HitsSelf(snake.body)
        /\ mode = "obstacle" => ~HitsObstacle(snake.body, obstacles)

\* every cell of the snake of w is in the grid
AllInGrid(w) == \A i \in 1..Len(w.snake.body) : InGrid(w.snake.body[i])

\* the cell a step in the buffered direction takes the head to
Target == Shifted(snake.body[1], snake.nextDirection)

\* the cell of the grid that c is, counted round the edges
OppositeEdgeCell(c) == Cell((c.x + Width) % Width, (c.y + Height) % Height)

\* C28 as claimed: in every reachable state, GameOver included, every cell
\* of the snake body is in the grid.
C28_AlwaysInGrid == AllInGrid(World)

\* C28: after construction and after reset() every snake cell is in the grid;
\* a tick that starts with every cell in the grid ends with every cell in the
\* grid, except that a tick that ends the game at a wall leaves the head one
\* step outside the grid (and there it stays in GameOver) with every other
\* cell inside; with wallPass active a move across an edge puts the head on
\* the opposite edge cell; nothing but a tick and reset() changes the body.
C28_InGridUntilWall ==
    /\ ticks = 0 /\ ~state.gameOver => AllInGrid(World)
    /\ \A w \in reset(World, now) : AllInGrid(w)
    /\ AllInGrid(World) =>
           \A w \in TickOutcomes :
               IF ~WallPassActive(state) /\ ~InGrid(Target)
               THEN /\ w.state.gameOver
                    /\ w.snake.body[1] = Target
                    /\ \A i \in 2..Len(w.snake.body) : InGrid(w.snake.body[i])
               ELSE AllInGrid(w)
    /\ AllInGrid(World) /\ WallPassActive(state) =>
           \A w \in TickOutcomes :
               /\ w.snake.body[1] = OppositeEdgeCell(Target)
               /\ AllInGrid(w)
    /\ \A w \in CallOutcomes(World, now) \cup {endGame(World)}
                    \cup TimeTickOutcomes \cup ExpiryOutcomes :
           w.snake.body = snake.body

\* with wallPass active the snake has moved right across the right edge: the
\* head is on the left edge and the cell behind it on the right edge
C28_Witness ==
    /\ state.running
    /\ WallPassActive(state)
    /\ snake.direction = "right"
    /\ snake.body[1].x = 0
    /\ snake.body[2].x = Width - 1
    /\ snake.body[1].y = snake.body[2].y

\* the step in the buffered direction takes the head into the cell of the
\* tail, which is in the grid, and into no other cell of the body
IntoTail ==
    LET target == IF WallPassActive(state) THEN Wrapped(Target) ELSE Target
    IN  /\ gameLoopInterval.pending
        /\ target = snake.body[Len(snake.body)]
        /\ InGrid(target)
        /\ \A i \in 1..(Len(snake.body) - 1) : snake.body[i] # target

\* C30: within a tick the tail is removed before the collision check: with
\* the growing flag false, a move of the head into the cell the tail was on
\* before the tick is no self collision; with the growing flag true the tail
\* stays and the same move is a self collision, unless invincible is active.
C30_TailGoesFirst ==
    IntoTail =>
        \A w \in TickOutcomes :
            IF ~snake.growing
            THEN /\ ~w.state.gameOver
                 /\ w.snake.body[1] = snake.body[Len(snake.body)]
                 /\ Len(w.snake.body) = Len(snake.body)
                 /\ ~HitsSelf(w.snake.body)
            ELSE /\ w.state.gameOver <=> ~InvincibleActive(state)
                 /\ Len(w.snake.body) = Len(snake.body) + 1
                 /\ w.snake.body[1] = w.snake.body[Len(w.snake.body)]

\* the tick after a meal has moved the head into the cell of the tail: the
\* tail stayed, the head is on it and the game is over
C30_Witness ==
    /\ state.gameOver
    /\ ~InvincibleActive(state)
    /\ Len(snake.body) > InitialSnakeLength
    /\ snake.body[1] = snake.body[Len(snake.body)]
    /\ \A i \in 2..(Len(snake.body) - 1) : snake.body[i] # snake.body[1]

\* C22 as claimed: no spawn loops forever: a spawn of food or of an obstacle
\* that has begun stops, with a free cell chosen if there is one and with a
\* failure for the host if there is none.
C22_SpawnStops == <>(spawning.pc \notin {"food", "obstacle"})

\* C24 as claimed: what getRenderData() and getState() return are copies: no
\* assignment to anything reachable from them (the cell objects in the snake
\* and obstacle lists and the food object included) changes the engine's
\* snake, food, obstacles or run state.
C24_SnapshotsAreCopies ==
    \A r \in HostWrites :
        /\ r.engine.snake = snake
        /\ r.engine.food = food
        /\ r.engine.obstacles = obstacles
        /\ r.engine.state = state

\* the power-up of the current state has reached its end time
PowerUpExpired == state.powerUpActive /\ now >= state.powerUpEndTime

\* the engine after the move of the next tick, before its collision check
Moved == moveSnake([World EXCEPT !.snake.direction = snake.nextDirection])

\* C31 as claimed: no simulation tick that starts at or after the end time
\* of the active power-up benefits from it: the move does not wrap at the
\* wall and the collision check grants no immunity, so a head that leaves
\* the grid or runs into the body or an obstacle ends the game, also in the
\* first tick after a pause that outlasted the power-up.
C31_ExpiredPowerUpIsIdle ==
    PowerUpExpired =>
        \A w \in TickOutcomes :
            /\ ~InGrid(Target) => w.state.gameOver /\ w.snake.body[1] = Target
            /\ HitsSelf(Moved.snake.body) => w.state.gameOver
            /\ mode = "obstacle"
                   /\ HitsObstacle(Moved.snake.body, obstacles) =>
                   w.state.gameOver

\* C32 as claimed: whatever start, pause, resume, endGame and reset calls
\* and timer callbacks have run, running and gameOver are not both true, and
\* paused is true only while running is true.
C32_FlagsConsistent ==
    /\ ~(state.running /\ state.gameOver)
    /\ state.paused => state.running

\* C33 as claimed: in timeAttack mode the seconds counted never exceed the
\* time limit, in no reachable state and after no wall-clock tick that is
\* scheduled, also when start() is called again after the time limit has
\* ended the game and reset() was not called.
C33_TimeWithinLimit ==
    mode = "timeAttack" =>
        /\ state.time <= TimeLimit
        /\ \A w \in TimeTickOutcomes : w.state.time <= TimeLimit

\* C34 as claimed: once onGameOver has been emitted the engine emits no
\* further notification until the next start(): in what a call or a timer
\* callback emits nothing comes after onGameOver, and on an engine whose
\* game is over no call and no callback emits anything.
C34_QuietAfterGameOver ==
    \A w \in Later({World}, now) :
        /\ \A i \in 1..Len(w.emitted) :
               w.emitted[i].event = "onGameOver" => i = Len(w.emitted)
        /\ state.gameOver /\ ~state.running => w.emitted = << >>

\* C35 as claimed: power-up notifications are paired: a tick that tells the
\* host of a new power-up while one is active has told it before, in the same
\* tick, that the active one has ended; so between two onPowerUpActivate of
\* one game there is an onPowerUpEnd for the earlier power-up.
C35_PowerUpNoticesPaired ==
    /\ callbacks["onPowerUpActivate"] # Null
    /\ callbacks["onPowerUpEnd"] # Null
    /\ state.powerUpActive
    => \A w \in TickOutcomes :
           \A i \in 1..Len(w.emitted) :
               w.emitted[i].event = "onPowerUpActivate" =>
                   \E j \in 1..(i - 1) :
                       /\ w.emitted[j].event = "onPowerUpEnd"
                       /\ w.emitted[j].payload = [type |-> state.powerUpType]

\* the handler that calls c has run in the tick that leads to w
Called(w, c) ==
    \E i \in 1..Len(w.emitted) : callbacks[w.emitted[i].event] = c

\* C36 as claimed: when a handler invoked during a simulation tick
\* (onScoreChange, onPowerUpActivate, onSpecialFoodEaten or onFoodEaten) has
\* called pause(), endGame() or reset(), no simulation or wall-clock timer is
\* scheduled when the tick returns; after endGame() or reset() the rest of
\* the tick does not change the growing flag, the food or the obstacles and
\* leaves no special-food timer pending.
C36_CallFromHandlerHolds ==
    gameLoopInterval.pending =>
        \A w \in gameLoopCalling(World, now) :
            /\ (\E c \in Calls : Called(w, c)) =>
                   /\ ~w.gameLoopInterval.pending
                   /\ ~w.gameTimeInterval.pending
            /\ Called(w, "endGame") =>
                   /\ w.snake.growing = Moved.snake.growing
                   /\ w.food = food
                   /\ w.obstacles = obstacles
                   /\ ~w.specialFoodTimer.pending
            /\ Called(w, "reset") =>
                   /\ ~w.snake.growing
                   /\ w.state = FreshState
                   /\ ~w.specialFoodTimer.pending

\* C37 as claimed: whenever the mode is classic or timeAttack the obstacle
\* list is empty, also after setConfig() has switched the mode away from
\* obstacle.
C37_NoObstaclesOutsideObstacleMode ==
    mode \in {"classic", "timeAttack"} => obstacles = << >>

\* the skins of the manager s as getSkins() returns them
Selected(s) == {id \in SkinIds : getSkins(s)[id].selected}

\* C38 as claimed: after any sequence of unlockSkin and selectSkin calls
\* exactly one skin is selected and that skin is unlocked; selectSkin with an
\* id that is no skin or a locked skin returns false and changes nothing;
\* unlockSkin returns the skin when it was locked and null when it was
\* unlocked before.
C38_OneSkinSelected ==
    /\ Cardinality(Selected(store)) = 1
    /\ \A id \in Selected(store) : getSkins(store)[id].unlocked
    /\ \A id \in SkinIdInputs :
          id \notin SkinIds \/ ~getSkins(store)[id].unlocked =>
              /\ selectSkin(store, id).r = FALSE
              /\ selectSkin(store, id).s = store
    /\ \A id \in SkinIds :
          unlockSkin(store, id).r = "skin" <=> ~getSkins(store)[id].unlocked

\* C39 as claimed: when clearAll() returns true, the stored stats,
\* achievements and skins are the original defaults, whatever calls came
\* before it, with or without init().
C39_ClearAllRestoresDefaults ==
    LET cleared == clearAll(store)
    IN  cleared.r =>
            /\ \A key \in ItemKeys : HasItem(cleared.s, key)
            /\ cleared.s.stats = DefaultStats
            /\ cleared.s.achievements = DefaultAchievements
            /\ cleared.s.skins = DefaultSkins

\* the tracks that are sounding in the manager a
Sounding(a) == {n \in Tracks : a.sounding[n] > 0}

\* C40 as claimed: at most one music track sounds at any time, and when a
\* track is playing, enableMusic(false) followed by enableMusic(true) has
\* that track playing again.
C40_MusicComesBack ==
    /\ Cardinality(Sounding(audio)) <= 1
    /\ \A n \in Tracks : audio.sounding[n] <= 1
    /\ \A n \in Sounding(audio) :
          audio.musicEnabled /\ audio.currentMusic.name = n =>
              LET back == enableMusic(enableMusic(audio, FALSE), TRUE)
              IN  /\ back.currentMusic.name = n
                  /\ back.sounding[n] > 0
====
